---- MODULE Spec2Model ----
(***************************************************************************)
(* jsonb_stats: typed accumulator state machine, native aggregate state    *)
(* (StatsState) and the parallel-worker protocol (combine / serial /       *)
(* deserial / final).                                                      *)
(*                                                                         *)
(* f64 values are modelled as exact rationals <<n, d>> (d > 0, lowest      *)
(* terms) together with the infinities and NaN: the properties about mean  *)
(* and sum_sq_diff are properties "in exact arithmetic".  JSON values are  *)
(* tagged records.                                                         *)
(***************************************************************************)
EXTENDS Integers, Sequences, FiniteSets, Bags, TLC

(***************************************************************************)
(* Bounds of the model.                                                    *)
(***************************************************************************)
\* longest stream of numeric values fed to the Welford accumulators
MaxLen == 4

(***************************************************************************)
(* f64 arithmetic.  A finite value is the exact rational <<n, d>> (d > 0,  *)
(* lowest terms); <<1, 0>>, <<-1, 0>> and <<0, 0>> are +inf, -inf and NaN, *)
(* which a division by zero produces.                                      *)
(***************************************************************************)
RECURSIVE Gcd(_, _)
Gcd(a, b) == IF b = 0 THEN a ELSE Gcd(b, a % b)

Abs(x) == IF x < 0 THEN -x ELSE x

Sign(x) == IF x < 0 THEN -1 ELSE IF x > 0 THEN 1 ELSE 0

NaN == <<0, 0>>

IsFinite(x) == x[2] # 0

IsNaN(x) == x = NaN

\* n/d in lowest terms with a positive denominator; n/0 is an infinity or NaN
Rat(n, d) ==
    IF d = 0 THEN <<Sign(n), 0>>
    ELSE LET g == Gcd(Abs(n), Abs(d))
         IN  IF d < 0 THEN <<(-n) \div g, (-d) \div g>> ELSE <<n \div g, d \div g>>

FInt(n) == <<n, 1>>

FAdd(x, y) ==
    IF IsFinite(x) /\ IsFinite(y)
    THEN LET g == Gcd(x[2], y[2])
         IN  Rat(x[1] * (y[2] \div g) + y[1] * (x[2] \div g), (x[2] \div g) * y[2])
    ELSE IF IsNaN(x) \/ IsNaN(y) THEN NaN
    ELSE IF IsFinite(y) THEN x
    ELSE IF IsFinite(x) THEN y
    ELSE IF x = y THEN x ELSE NaN

FNeg(x) == <<-x[1], x[2]>>

FSub(x, y) == FAdd(x, FNeg(y))

FMul(x, y) ==
    IF IsFinite(x) /\ IsFinite(y)
    THEN LET g1 == Gcd(Abs(x[1]), y[2])
             g2 == Gcd(Abs(y[1]), x[2])
         IN  Rat((x[1] \div g1) * (y[1] \div g2), (x[2] \div g2) * (y[2] \div g1))
    ELSE <<Sign(x[1]) * Sign(y[1]), 0>>

FDiv(x, y) ==
    IF IsFinite(x) /\ IsFinite(y)
    THEN IF y[1] = 0 THEN <<Sign(x[1]), 0>> ELSE FMul(x, Rat(y[2], y[1]))
    ELSE IF IsNaN(x) \/ IsNaN(y) THEN NaN
    ELSE IF IsFinite(y) THEN <<x[1] * (IF y[1] < 0 THEN -1 ELSE 1), 0>>
    ELSE IF IsFinite(x) THEN FInt(0)
    ELSE NaN

\* a comparison with NaN is false
FLt(x, y) ==
    IF IsNaN(x) \/ IsNaN(y) THEN FALSE
    ELSE IF ~IsFinite(x) /\ ~IsFinite(y) THEN x[1] < y[1]
    ELSE x[1] * y[2] < y[1] * x[2]

FLe(x, y) == ~IsNaN(x) /\ ~IsNaN(y) /\ ~FLt(y, x)

\* NumFields::init that leaves mean at zero
NumFields_init_ZeroMean(val) ==
    [count |-> 1, sum |-> val, min |-> val, max |-> val, mean |-> FInt(0),
     sum_sq_diff |-> FInt(0)]

(***************************************************************************)
(* NumFields: the Welford accumulator shared by the numeric variants.      *)
(***************************************************************************)
NumFields_init(val) ==
    [count |-> 1, sum |-> val, min |-> val, max |-> val, mean |-> val,
     sum_sq_diff |-> FInt(0)]

\* NumFields::update that never lowers min
NumFields_update_KeepMin(self, val) ==
    LET count == self.count + 1
        delta == FSub(val, self.mean)
        mean  == FAdd(self.mean, FDiv(delta, FInt(count)))
    IN  [count |-> count,
         sum   |-> FAdd(self.sum, val),
         min   |-> self.min,
         max   |-> IF FLt(self.max, val) THEN val ELSE self.max,
         mean  |-> mean,
         sum_sq_diff |-> FAdd(self.sum_sq_diff, FMul(delta, FSub(val, mean)))]

NumFields_update(self, val) ==
    LET count == self.count + 1
        delta == FSub(val, self.mean)
        mean  == FAdd(self.mean, FDiv(delta, FInt(count)))
    IN  [count |-> count,
         sum   |-> FAdd(self.sum, val),
         min   |-> IF FLt(val, self.min) THEN val ELSE self.min,
         max   |-> IF FLt(self.max, val) THEN val ELSE self.max,
         mean  |-> mean,
         sum_sq_diff |-> FAdd(self.sum_sq_diff, FMul(delta, FSub(val, mean)))]

\* NumFields::merge that weights the mean shift by the own count
NumFields_merge_SelfWeight(self, other) ==
    LET ca    == FInt(self.count)
        cb    == FInt(other.count)
        total == FAdd(ca, cb)
        delta == FSub(other.mean, self.mean)
    IN  [count |-> self.count + other.count,
         sum   |-> FAdd(self.sum, other.sum),
         min   |-> IF FLt(other.min, self.min) THEN other.min ELSE self.min,
         max   |-> IF FLt(self.max, other.max) THEN other.max ELSE self.max,
         mean  |-> FAdd(self.mean, FDiv(FMul(delta, ca), total)),
         sum_sq_diff |->
             FAdd(self.sum_sq_diff,
                  FAdd(other.sum_sq_diff,
                       FDiv(FMul(FMul(FMul(delta, delta), ca), cb), total)))]

\* NumFields::merge without the cross term of sum_sq_diff
NumFields_merge_NoCross(self, other) ==
    LET ca    == FInt(self.count)
        cb    == FInt(other.count)
        total == FAdd(ca, cb)
        delta == FSub(other.mean, self.mean)
    IN  [count |-> self.count + other.count,
         sum   |-> FAdd(self.sum, other.sum),
         min   |-> IF FLt(other.min, self.min) THEN other.min ELSE self.min,
         max   |-> IF FLt(self.max, other.max) THEN other.max ELSE self.max,
         mean  |-> FAdd(self.mean, FDiv(FMul(delta, cb), total)),
         sum_sq_diff |-> FAdd(self.sum_sq_diff, other.sum_sq_diff)]

NumFields_merge(self, other) ==
    LET ca    == FInt(self.count)
        cb    == FInt(other.count)
        total == FAdd(ca, cb)
        delta == FSub(other.mean, self.mean)
    IN  [count |-> self.count + other.count,
         sum   |-> FAdd(self.sum, other.sum),
         min   |-> IF FLt(other.min, self.min) THEN other.min ELSE self.min,
         max   |-> IF FLt(self.max, other.max) THEN other.max ELSE self.max,
         mean  |-> FAdd(self.mean, FDiv(FMul(delta, cb), total)),
         sum_sq_diff |->
             FAdd(self.sum_sq_diff,
                  FAdd(other.sum_sq_diff,
                       FDiv(FMul(FMul(FMul(delta, delta), ca), cb), total)))]

(***************************************************************************)
(* Text.  Strings the program only compares for equality (field names,     *)
(* type tags) are TLA+ strings.  Strings whose characters it inspects or   *)
(* orders (stat values, keys of counts maps, dates) are sequences of       *)
(* one-character strings.                                                  *)
(***************************************************************************)
\* the characters of the model in byte order
CharOrder ==
    <<" ", ",", "-", ".", "/", "0", "1", "2", "3", "4", "5", "6", "7", "8", "9",
      "a", "e", "f", "l", "r", "s", "t", "u", "x", "y", "{", "}">>

CharCode(c) == CHOOSE i \in 1..Len(CharOrder) : CharOrder[i] = c

\* String's Ord: lexicographic by byte
RECURSIVE StrLt(_, _)
StrLt(a, b) ==
    IF b = <<>> THEN FALSE
    ELSE IF a = <<>> THEN TRUE
    ELSE IF Head(a) = Head(b) THEN StrLt(Tail(a), Tail(b))
    ELSE CharCode(Head(a)) < CharCode(Head(b))

Digits == <<"0", "1", "2", "3", "4", "5", "6", "7", "8", "9">>

RECURSIVE NatChars(_)
NatChars(n) == IF n < 10 THEN <<Digits[n + 1]>> ELSE NatChars(n \div 10) \o <<Digits[(n % 10) + 1]>>

\* decimal text of n/d with exactly s fractional digits (d divides 10^s)
DecChars(q, s) ==
    LET p10  == IF s = 0 THEN 1 ELSE IF s = 1 THEN 10 ELSE IF s = 2 THEN 100 ELSE 1000
        m    == (Abs(q[1]) * p10) \div q[2]
        frac == m % p10
        sign == IF q[1] < 0 THEN <<"-">> ELSE <<>>
    IN  sign \o NatChars(m \div p10) \o
        (IF s = 0 THEN <<>>
         ELSE IF s = 1 THEN <<".">> \o NatChars(frac)
         ELSE IF s = 2 THEN <<".", Digits[(frac \div 10) + 1], Digits[(frac % 10) + 1]>>
         ELSE <<".", Digits[(frac \div 100) + 1], Digits[((frac \div 10) % 10) + 1],
                Digits[(frac % 10) + 1]>>)

(***************************************************************************)
(* JSON values (serde_json::Value with arbitrary_precision: a number keeps *)
(* its text).  fmt is the shape of a number's text: "int" (no fraction),   *)
(* "f64" (shortest digits that give the f64 back), "2dp" (exactly two      *)
(* fractional digits).                                                     *)
(***************************************************************************)
JNull == [t |-> "null"]
JBool(b) == [t |-> "bool", b |-> b]
JNum(q, fmt) == [t |-> "num", q |-> q, fmt |-> fmt]
JStr(s) == [t |-> "str", s |-> s]
JArr(a) == [t |-> "arr", a |-> a]
JObj(o) == [t |-> "obj", o |-> o]
\* what Map::get gives for an absent key
Missing == [t |-> "missing"]

EmptyMap == <<>>

Get(obj, key) == IF key \in DOMAIN obj THEN obj[key] ELSE Missing

JInt(n) == JNum(FInt(n), "int")

\* Number::to_string: the text of the number
NumberToString(j) ==
    IF j.fmt = "2dp" THEN DecChars(j.q, 2)
    ELSE IF j.fmt = "int" THEN DecChars(j.q, 0)
    ELSE IF 10 % j.q[2] = 0 THEN DecChars(j.q, 1)
    ELSE IF 100 % j.q[2] = 0 THEN DecChars(j.q, 2)
    ELSE IF 1000 % j.q[2] = 0 THEN DecChars(j.q, 3)
    ELSE NatChars(Abs(j.q[1])) \o <<"/">> \o NatChars(j.q[2])

BoolToString(b) == IF b THEN <<"t", "r", "u", "e">> ELSE <<"f", "a", "l", "s", "e">>

(***************************************************************************)
(* helpers.rs                                                              *)
(***************************************************************************)
get_f64(obj, key) ==
    LET v == Get(obj, key) IN IF v.t = "num" THEN v.q ELSE FInt(0)

\* f64 as i64: toward zero
F64AsI64(q) == IF q[1] >= 0 THEN q[1] \div q[2] ELSE -((-q[1]) \div q[2])

\* parse::<i64> of the number's text fails on a fraction
get_i64(obj, key) ==
    LET v == Get(obj, key) IN IF v.t = "num" /\ v.fmt = "int" THEN v.q[1] ELSE 0

get_type(obj) ==
    LET v == Get(obj, "type") IN IF v.t = "str" THEN v.s ELSE ""

None == <<>>
Some(x) == <<x>>

get_str(obj, key) ==
    LET v == Get(obj, key) IN IF v.t = "str" THEN Some(v.s) ELSE None

\* fract() of a non-finite value is NaN, and Number::from_f64 gives None for it
num_value(v) ==
    IF ~IsFinite(v) THEN JNull ELSE IF v[2] = 1 THEN JNum(v, "int") ELSE JNum(v, "f64")

\* format!("{:.2}", v): the nearest multiple of 1/100, a tie to the even one
RoundHalfEven(q) ==
    LET fl  == q[1] \div q[2]
        rem == q[1] - fl * q[2]
    IN  IF 2 * rem < q[2] THEN fl
        ELSE IF 2 * rem > q[2] THEN fl + 1
        ELSE IF fl % 2 = 0 THEN fl ELSE fl + 1

\* what stands for a value never produced because the call panicked
Panic == [t |-> "panic"]

\* format!("{:.2}", v) of a non-finite v is "NaN" or "inf", which from_str
\* rejects, and the unwrap panics
round2(v) ==
    IF ~IsFinite(v) THEN Panic
    ELSE JNum(Rat(RoundHalfEven(FMul(v, FInt(100))), 100), "2dp")

(***************************************************************************)
(* state.rs: AggEntry and StatsState.  A StatsState is its entries map, a  *)
(* function from field names to entries.                                   *)
(***************************************************************************)
NumVariants == {"IntAgg", "FloatAgg", "Dec2Agg", "NatAgg"}

NumAgg(variant, f) == [variant |-> variant, f |-> f]
StrAgg(counts) == [variant |-> "StrAgg", counts |-> counts]
BoolAgg(counts) == [variant |-> "BoolAgg", counts |-> counts]
ArrAgg(count, counts) == [variant |-> "ArrAgg", count |-> count, counts |-> counts]
DateAgg(counts, min_date, max_date) ==
    [variant |-> "DateAgg", counts |-> counts, min_date |-> min_date, max_date |-> max_date]

type_tag(e) ==
    CASE e.variant = "IntAgg"   -> "int_agg"
      [] e.variant = "FloatAgg" -> "float_agg"
      [] e.variant = "Dec2Agg"  -> "dec2_agg"
      [] e.variant = "NatAgg"   -> "nat_agg"
      [] e.variant = "StrAgg"   -> "str_agg"
      [] e.variant = "BoolAgg"  -> "bool_agg"
      [] e.variant = "ArrAgg"   -> "arr_agg"
      [] e.variant = "DateAgg"  -> "date_agg"

\* StatsState::default()
StatsState_default == EmptyMap

\* *counts.entry(k).or_insert(0) += v
CountsAdd(counts, k, v) ==
    IF k \in DOMAIN counts THEN [counts EXCEPT ![k] = @ + v] ELSE (k :> v) @@ counts

\* pgrx::error!: the call does not return
Raise(kind) == [err |-> kind]
Ok(entry) == [err |-> "none", entry |-> entry]

(***************************************************************************)
(* accum.rs: the native accumulator (jsonb_stats_accum_sfunc).             *)
(***************************************************************************)
\* value_to_string that writes a boolean as PostgreSQL prints it, t or f
value_to_string_PgBool(stat) ==
    LET v == Get(stat, "value")
    IN  CASE v.t = "str"  -> Some(v.s)
          [] v.t = "bool" -> Some(IF v.b THEN <<"t">> ELSE <<"f">>)
          [] v.t = "num"  -> Some(NumberToString(v))
          [] OTHER        -> None

value_to_string(stat) ==
    LET v == Get(stat, "value")
    IN  CASE v.t = "str"  -> Some(v.s)
          [] v.t = "bool" -> Some(BoolToString(v.b))
          [] v.t = "num"  -> Some(NumberToString(v))
          [] OTHER        -> None

\* str::trim_matches: every leading and every trailing character of the set
RECURSIVE TrimStart(_, _)
TrimStart(s, set) == IF s # <<>> /\ Head(s) \in set THEN TrimStart(Tail(s), set) ELSE s

RECURSIVE TrimEnd(_, _)
TrimEnd(s, set) ==
    IF s # <<>> /\ s[Len(s)] \in set THEN TrimEnd(SubSeq(s, 1, Len(s) - 1), set) ELSE s

TrimMatches(s, set) == TrimEnd(TrimStart(s, set), set)

\* str::split(sep): the pieces between the separators, empty ones included
RECURSIVE SplitFrom(_, _, _, _)
SplitFrom(s, sep, cur, acc) ==
    IF s = <<>> THEN Append(acc, cur)
    ELSE IF Head(s) = sep THEN SplitFrom(Tail(s), sep, <<>>, Append(acc, cur))
    ELSE SplitFrom(Tail(s), sep, Append(cur, Head(s)), acc)

Split(s, sep) == SplitFrom(s, sep, <<>>, <<>>)

RECURSIVE TallyArray(_, _)
TallyArray(arr, counts) ==
    IF arr = <<>> THEN counts
    ELSE LET elem == Head(arr)
         IN  CASE elem.t = "str"  -> TallyArray(Tail(arr), CountsAdd(counts, elem.s, 1))
               [] elem.t = "num"  -> TallyArray(Tail(arr), CountsAdd(counts, NumberToString(elem), 1))
               [] elem.t = "bool" -> TallyArray(Tail(arr), CountsAdd(counts, BoolToString(elem.b), 1))
               [] OTHER           -> TallyArray(Tail(arr), counts)

RECURSIVE TallyPieces(_, _)
TallyPieces(pieces, counts) ==
    IF pieces = <<>> THEN counts
    ELSE TallyPieces(Tail(pieces), CountsAdd(counts, TrimMatches(Head(pieces), {" "}), 1))

collect_arr_counts(stat, counts) ==
    LET v == Get(stat, "value")
    IN  IF v.t = "arr" THEN TallyArray(v.a, counts)
        ELSE IF v.t = "str"
             THEN LET trimmed == TrimMatches(v.s, {"{", "}"})
                  IN  IF trimmed # <<>> THEN TallyPieces(Split(trimmed, ","), counts)
                      ELSE counts
        ELSE counts

init_entry(stat, stat_type) ==
    CASE stat_type = "int"   -> Ok(NumAgg("IntAgg", NumFields_init(get_f64(stat, "value"))))
      [] stat_type = "float" -> Ok(NumAgg("FloatAgg", NumFields_init(get_f64(stat, "value"))))
      [] stat_type = "dec2"  -> Ok(NumAgg("Dec2Agg", NumFields_init(get_f64(stat, "value"))))
      [] stat_type = "nat"   ->
            IF FLt(get_f64(stat, "value"), FInt(0)) THEN Raise("InvalidValue")
            ELSE Ok(NumAgg("NatAgg", NumFields_init(get_f64(stat, "value"))))
      [] stat_type = "str"   ->
            IF value_to_string(stat) = None THEN Raise("InvalidValue")
            ELSE Ok(StrAgg(value_to_string(stat)[1] :> 1))
      [] stat_type = "bool"  ->
            IF value_to_string(stat) = None THEN Raise("InvalidValue")
            ELSE Ok(BoolAgg(value_to_string(stat)[1] :> 1))
      [] stat_type = "arr"   -> Ok(ArrAgg(1, collect_arr_counts(stat, EmptyMap)))
      [] stat_type = "date"  ->
            IF Get(stat, "value").t # "str" THEN Raise("InvalidValue")
            ELSE LET date_str == Get(stat, "value").s
                 IN  Ok(DateAgg(date_str :> 1, Some(date_str), Some(date_str)))
      [] OTHER               -> Raise("UnknownStatType")

\* update_entry whose date branch compares min_date the wrong way round
update_entry_FirstDate(entry, stat, stat_type) ==
    CASE entry.variant \in {"IntAgg", "FloatAgg", "Dec2Agg"} ->
            Ok(NumAgg(entry.variant, NumFields_update(entry.f, get_f64(stat, "value"))))
      [] entry.variant = "NatAgg" ->
            IF FLt(get_f64(stat, "value"), FInt(0)) THEN Raise("InvalidValue")
            ELSE Ok(NumAgg("NatAgg", NumFields_update(entry.f, get_f64(stat, "value"))))
      [] entry.variant \in {"StrAgg", "BoolAgg"} ->
            IF value_to_string(stat) # None
            THEN Ok([entry EXCEPT !.counts = CountsAdd(@, value_to_string(stat)[1], 1)])
            ELSE Ok(entry)
      [] entry.variant = "ArrAgg" ->
            Ok(ArrAgg(entry.count + 1, collect_arr_counts(stat, entry.counts)))
      [] entry.variant = "DateAgg" ->
            IF Get(stat, "value").t = "str"
            THEN LET date_str == Get(stat, "value").s
                 IN  Ok(DateAgg(CountsAdd(entry.counts, date_str, 1),
                                IF entry.min_date = None THEN Some(date_str)
                                ELSE IF StrLt(entry.min_date[1], date_str) THEN Some(date_str)
                                ELSE entry.min_date,
                                IF entry.max_date = None THEN Some(date_str)
                                ELSE IF StrLt(entry.max_date[1], date_str) THEN Some(date_str)
                                ELSE entry.max_date))
            ELSE Ok(entry)

\* the existing entry's variant decides; the stat's type tag is not read
update_entry(entry, stat, stat_type) ==
    CASE entry.variant \in {"IntAgg", "FloatAgg", "Dec2Agg"} ->
            Ok(NumAgg(entry.variant, NumFields_update(entry.f, get_f64(stat, "value"))))
      [] entry.variant = "NatAgg" ->
            IF FLt(get_f64(stat, "value"), FInt(0)) THEN Raise("InvalidValue")
            ELSE Ok(NumAgg("NatAgg", NumFields_update(entry.f, get_f64(stat, "value"))))
      [] entry.variant \in {"StrAgg", "BoolAgg"} ->
            IF value_to_string(stat) # None
            THEN Ok([entry EXCEPT !.counts = CountsAdd(@, value_to_string(stat)[1], 1)])
            ELSE Ok(entry)
      [] entry.variant = "ArrAgg" ->
            Ok(ArrAgg(entry.count + 1, collect_arr_counts(stat, entry.counts)))
      [] entry.variant = "DateAgg" ->
            IF Get(stat, "value").t = "str"
            THEN LET date_str == Get(stat, "value").s
                 IN  Ok(DateAgg(CountsAdd(entry.counts, date_str, 1),
                                IF entry.min_date = None THEN Some(date_str)
                                ELSE IF StrLt(date_str, entry.min_date[1]) THEN Some(date_str)
                                ELSE entry.min_date,
                                IF entry.max_date = None THEN Some(date_str)
                                ELSE IF StrLt(entry.max_date[1], date_str) THEN Some(date_str)
                                ELSE entry.max_date))
            ELSE Ok(entry)

\* serde_json::Map iterates in key order
KeyOrder == <<"a", "b", "type">>

KeysInOrder(m) == SelectSeq(KeyOrder, LAMBDA k : k \in DOMAIN m)

\* the loop of jsonb_stats_accum_sfunc starting the entry anew when the
\* stat's type is not the type the entry was created from
RECURSIVE accum_loop_Reinit(_, _, _)
accum_loop_Reinit(entries, stats_map, keys) ==
    IF keys = <<>> THEN [err |-> "none", entries |-> entries]
    ELSE LET key      == Head(keys)
             stat_obj == stats_map[key]
         IN  IF key = "type" \/ stat_obj.t # "obj" \/ Get(stat_obj.o, "type").t # "str"
             THEN accum_loop_Reinit(entries, stats_map, Tail(keys))
             ELSE LET stat_type == Get(stat_obj.o, "type").s
                      fresh == init_entry(stat_obj.o, stat_type)
                      r == IF key \in DOMAIN entries
                              /\ (fresh.err # "none" \/ fresh.entry.variant = entries[key].variant)
                           THEN update_entry(entries[key], stat_obj.o, stat_type)
                           ELSE fresh
                  IN  IF r.err # "none" THEN [err |-> r.err, entries |-> entries]
                      ELSE accum_loop_Reinit((key :> r.entry) @@ entries, stats_map,
                                             Tail(keys))

\* the loop of jsonb_stats_accum_sfunc taking a stat without a type for a
\* str stat
RECURSIVE accum_loop_DefaultStr(_, _, _)
accum_loop_DefaultStr(entries, stats_map, keys) ==
    IF keys = <<>> THEN [err |-> "none", entries |-> entries]
    ELSE LET key      == Head(keys)
             stat_obj == stats_map[key]
         IN  IF key = "type" \/ stat_obj.t # "obj"
             THEN accum_loop_DefaultStr(entries, stats_map, Tail(keys))
             ELSE LET stat_type == IF Get(stat_obj.o, "type").t = "str"
                                   THEN Get(stat_obj.o, "type").s ELSE "str"
                      r == IF key \in DOMAIN entries
                           THEN update_entry(entries[key], stat_obj.o, stat_type)
                           ELSE init_entry(stat_obj.o, stat_type)
                  IN  IF r.err # "none" THEN [err |-> r.err, entries |-> entries]
                      ELSE accum_loop_DefaultStr((key :> r.entry) @@ entries,
                                                 stats_map, Tail(keys))

\* the for loop of jsonb_stats_accum_sfunc over the keys left; an error
\* leaves the keys before it folded in
RECURSIVE accum_loop(_, _, _)
accum_loop(entries, stats_map, keys) ==
    IF keys = <<>> THEN [err |-> "none", entries |-> entries]
    ELSE LET key      == Head(keys)
             stat_obj == stats_map[key]
         IN  IF key = "type" \/ stat_obj.t # "obj" \/ Get(stat_obj.o, "type").t # "str"
             THEN accum_loop(entries, stats_map, Tail(keys))
             ELSE LET stat_type == Get(stat_obj.o, "type").s
                      r == IF key \in DOMAIN entries
                           THEN update_entry(entries[key], stat_obj.o, stat_type)
                           ELSE init_entry(stat_obj.o, stat_type)
                  IN  IF r.err # "none" THEN [err |-> r.err, entries |-> entries]
                      ELSE accum_loop((key :> r.entry) @@ entries, stats_map, Tail(keys))

\* jsonb_stats_accum_sfunc that answers a row that is no object with an empty state
accum_sfunc_entries_Reset(entries, stats) ==
    IF stats.t # "obj" THEN [err |-> "none", entries |-> EmptyMap]
    ELSE accum_loop(entries, stats.o, KeysInOrder(stats.o))

\* jsonb_stats_accum_sfunc on the entries of the (existing or new) state
accum_sfunc_entries(entries, stats) ==
    IF stats.t # "obj" THEN [err |-> "none", entries |-> entries]
    ELSE accum_loop(entries, stats.o, KeysInOrder(stats.o))

(***************************************************************************)
(* merge.rs: the native merger (jsonb_stats_merge_sfunc).                  *)
(***************************************************************************)
\* n.to_string().parse::<i64>().unwrap_or(0)
ParseI64(v) == IF v.t = "num" /\ v.fmt = "int" THEN v.q[1] ELSE 0

parse_num_fields(obj) ==
    [count |-> F64AsI64(get_f64(obj, "count")),
     sum   |-> get_f64(obj, "sum"),
     min   |-> get_f64(obj, "min"),
     max   |-> get_f64(obj, "max"),
     mean  |-> get_f64(obj, "mean"),
     sum_sq_diff |-> get_f64(obj, "sum_sq_diff")]

parse_counts(obj) ==
    LET c == Get(obj, "counts")
    IN  IF c.t = "obj" THEN [k \in DOMAIN c.o |-> ParseI64(c.o[k])] ELSE EmptyMap

\* an unrecognised tag is taken for a str_agg instead of being rejected
parse_agg_entry_Lenient(obj) ==
    CASE get_type(obj) = "int_agg"   -> Ok(NumAgg("IntAgg", parse_num_fields(obj)))
      [] get_type(obj) = "float_agg" -> Ok(NumAgg("FloatAgg", parse_num_fields(obj)))
      [] get_type(obj) = "dec2_agg"  -> Ok(NumAgg("Dec2Agg", parse_num_fields(obj)))
      [] get_type(obj) = "nat_agg"   -> Ok(NumAgg("NatAgg", parse_num_fields(obj)))
      [] get_type(obj) = "str_agg"   -> Ok(StrAgg(parse_counts(obj)))
      [] get_type(obj) = "bool_agg"  -> Ok(BoolAgg(parse_counts(obj)))
      [] get_type(obj) = "arr_agg"   ->
            Ok(ArrAgg(F64AsI64(get_f64(obj, "count")), parse_counts(obj)))
      [] get_type(obj) = "date_agg"  ->
            Ok(DateAgg(parse_counts(obj), get_str(obj, "min"), get_str(obj, "max")))
      [] OTHER                       -> Ok(StrAgg(parse_counts(obj)))

parse_agg_entry(obj) ==
    CASE get_type(obj) = "int_agg"   -> Ok(NumAgg("IntAgg", parse_num_fields(obj)))
      [] get_type(obj) = "float_agg" -> Ok(NumAgg("FloatAgg", parse_num_fields(obj)))
      [] get_type(obj) = "dec2_agg"  -> Ok(NumAgg("Dec2Agg", parse_num_fields(obj)))
      [] get_type(obj) = "nat_agg"   -> Ok(NumAgg("NatAgg", parse_num_fields(obj)))
      [] get_type(obj) = "str_agg"   -> Ok(StrAgg(parse_counts(obj)))
      [] get_type(obj) = "bool_agg"  -> Ok(BoolAgg(parse_counts(obj)))
      [] get_type(obj) = "arr_agg"   ->
            Ok(ArrAgg(F64AsI64(get_f64(obj, "count")), parse_counts(obj)))
      [] get_type(obj) = "date_agg"  ->
            Ok(DateAgg(parse_counts(obj), get_str(obj, "min"), get_str(obj, "max")))
      [] OTHER                       -> Raise("UnknownAggType")

\* the incoming count replaces the existing one instead of being added
MergeCounts_Insert(ca, cb) ==
    [k \in DOMAIN ca \cup DOMAIN cb |-> IF k \in DOMAIN cb THEN cb[k] ELSE ca[k]]

\* for (k, v) in cb { *ca.entry(k).or_insert(0) += v }
MergeCounts(ca, cb) ==
    [k \in DOMAIN ca \cup DOMAIN cb |->
        (IF k \in DOMAIN ca THEN ca[k] ELSE 0) + (IF k \in DOMAIN cb THEN cb[k] ELSE 0)]

\* merge_agg_entries that adds the incoming arr_agg's number of distinct elements to count
merge_agg_entries_ArrElements(existing, incoming, key) ==
    IF type_tag(existing) # type_tag(incoming) THEN Raise("TypeMismatch")
    ELSE CASE existing.variant \in NumVariants ->
                Ok(NumAgg(existing.variant, NumFields_merge(existing.f, incoming.f)))
           [] existing.variant \in {"StrAgg", "BoolAgg"} ->
                Ok([existing EXCEPT !.counts = MergeCounts(@, incoming.counts)])
           [] existing.variant = "ArrAgg" ->
                Ok(ArrAgg(existing.count + Cardinality(DOMAIN incoming.counts),
                          MergeCounts(existing.counts, incoming.counts)))
           [] existing.variant = "DateAgg" ->
                Ok(DateAgg(MergeCounts(existing.counts, incoming.counts),
                           IF existing.min_date # None /\ incoming.min_date # None
                              /\ StrLt(incoming.min_date[1], existing.min_date[1])
                           THEN incoming.min_date
                           ELSE IF existing.min_date = None /\ incoming.min_date # None
                           THEN incoming.min_date
                           ELSE existing.min_date,
                           IF existing.max_date # None /\ incoming.max_date # None
                              /\ StrLt(existing.max_date[1], incoming.max_date[1])
                           THEN incoming.max_date
                           ELSE IF existing.max_date = None /\ incoming.max_date # None
                           THEN incoming.max_date
                           ELSE existing.max_date))

\* merge_agg_entries that leaves an absent min_date absent
merge_agg_entries_NoAdopt(existing, incoming, key) ==
    IF type_tag(existing) # type_tag(incoming) THEN Raise("TypeMismatch")
    ELSE CASE existing.variant \in NumVariants ->
                Ok(NumAgg(existing.variant, NumFields_merge(existing.f, incoming.f)))
           [] existing.variant \in {"StrAgg", "BoolAgg"} ->
                Ok([existing EXCEPT !.counts = MergeCounts(@, incoming.counts)])
           [] existing.variant = "ArrAgg" ->
                Ok(ArrAgg(existing.count + incoming.count,
                          MergeCounts(existing.counts, incoming.counts)))
           [] existing.variant = "DateAgg" ->
                Ok(DateAgg(MergeCounts(existing.counts, incoming.counts),
                           IF existing.min_date # None /\ incoming.min_date # None
                              /\ StrLt(incoming.min_date[1], existing.min_date[1])
                           THEN incoming.min_date
                           ELSE existing.min_date,
                           IF existing.max_date # None /\ incoming.max_date # None
                              /\ StrLt(existing.max_date[1], incoming.max_date[1])
                           THEN incoming.max_date
                           ELSE IF existing.max_date = None /\ incoming.max_date # None
                           THEN incoming.max_date
                           ELSE existing.max_date))

\* merge_agg_entries without the error: on differing tags the existing entry is kept
merge_agg_entries_NoTagCheck(existing, incoming, key) ==
    IF type_tag(existing) # type_tag(incoming) THEN Ok(existing)
    ELSE CASE existing.variant \in NumVariants ->
                Ok(NumAgg(existing.variant, NumFields_merge(existing.f, incoming.f)))
           [] existing.variant \in {"StrAgg", "BoolAgg"} ->
                Ok([existing EXCEPT !.counts = MergeCounts(@, incoming.counts)])
           [] existing.variant = "ArrAgg" ->
                Ok(ArrAgg(existing.count + incoming.count,
                          MergeCounts(existing.counts, incoming.counts)))
           [] existing.variant = "DateAgg" ->
                Ok(DateAgg(MergeCounts(existing.counts, incoming.counts),
                           IF existing.min_date # None /\ incoming.min_date # None
                              /\ StrLt(incoming.min_date[1], existing.min_date[1])
                           THEN incoming.min_date
                           ELSE IF existing.min_date = None /\ incoming.min_date # None
                           THEN incoming.min_date
                           ELSE existing.min_date,
                           IF existing.max_date # None /\ incoming.max_date # None
                              /\ StrLt(existing.max_date[1], incoming.max_date[1])
                           THEN incoming.max_date
                           ELSE IF existing.max_date = None /\ incoming.max_date # None
                           THEN incoming.max_date
                           ELSE existing.max_date))

merge_agg_entries(existing, incoming, key) ==
    IF type_tag(existing) # type_tag(incoming) THEN Raise("TypeMismatch")
    ELSE CASE existing.variant \in NumVariants ->
                Ok(NumAgg(existing.variant, NumFields_merge(existing.f, incoming.f)))
           [] existing.variant \in {"StrAgg", "BoolAgg"} ->
                Ok([existing EXCEPT !.counts = MergeCounts(@, incoming.counts)])
           [] existing.variant = "ArrAgg" ->
                Ok(ArrAgg(existing.count + incoming.count,
                          MergeCounts(existing.counts, incoming.counts)))
           [] existing.variant = "DateAgg" ->
                Ok(DateAgg(MergeCounts(existing.counts, incoming.counts),
                           IF existing.min_date # None /\ incoming.min_date # None
                              /\ StrLt(incoming.min_date[1], existing.min_date[1])
                           THEN incoming.min_date
                           ELSE IF existing.min_date = None /\ incoming.min_date # None
                           THEN incoming.min_date
                           ELSE existing.min_date,
                           IF existing.max_date # None /\ incoming.max_date # None
                              /\ StrLt(existing.max_date[1], incoming.max_date[1])
                           THEN incoming.max_date
                           ELSE IF existing.max_date = None /\ incoming.max_date # None
                           THEN incoming.max_date
                           ELSE existing.max_date))

\* the loop of jsonb_stats_merge_sfunc storing into a map emptied at each step
RECURSIVE merge_loop_Replace(_, _, _)
merge_loop_Replace(entries, agg_map, keys) ==
    IF keys = <<>> THEN [err |-> "none", entries |-> entries]
    ELSE LET key     == Head(keys)
             summary == agg_map[key]
         IN  IF key = "type" \/ summary.t # "obj"
             THEN merge_loop_Replace(entries, agg_map, Tail(keys))
             ELSE LET incoming == parse_agg_entry(summary.o)
                      r == IF incoming.err # "none" THEN incoming
                           ELSE IF key \in DOMAIN entries
                           THEN merge_agg_entries(entries[key], incoming.entry, key)
                           ELSE incoming
                  IN  IF r.err # "none" THEN [err |-> r.err, entries |-> entries]
                      ELSE merge_loop_Replace((key :> r.entry), agg_map, Tail(keys))

\* the for loop of jsonb_stats_merge_sfunc over the keys left
RECURSIVE merge_loop(_, _, _)
merge_loop(entries, agg_map, keys) ==
    IF keys = <<>> THEN [err |-> "none", entries |-> entries]
    ELSE LET key     == Head(keys)
             summary == agg_map[key]
         IN  IF key = "type" \/ summary.t # "obj"
             THEN merge_loop(entries, agg_map, Tail(keys))
             ELSE LET incoming == parse_agg_entry(summary.o)
                      r == IF incoming.err # "none" THEN incoming
                           ELSE IF key \in DOMAIN entries
                           THEN merge_agg_entries(entries[key], incoming.entry, key)
                           ELSE incoming
                  IN  IF r.err # "none" THEN [err |-> r.err, entries |-> entries]
                      ELSE merge_loop((key :> r.entry) @@ entries, agg_map, Tail(keys))

\* jsonb_stats_merge_sfunc on the entries of the (existing or new) state;
\* agg is None (SQL NULL) or Some(json)
merge_sfunc_entries(entries, agg) ==
    IF agg = None \/ agg[1].t # "obj" THEN [err |-> "none", entries |-> entries]
    ELSE merge_loop(entries, agg[1].o, KeysInOrder(agg[1].o))

(***************************************************************************)
(* final_fn.rs: the native finalizer (jsonb_stats_final_internal).         *)
(***************************************************************************)
\* the base-100 digits of a natural number, the most significant first
RECURSIVE Pairs(_)
Pairs(n) == IF n < 100 THEN <<n>> ELSE Append(Pairs(n \div 100), n % 100)

\* the first k base-100 digits of rem/d after the point (rem < d)
RECURSIVE FracPairs(_, _, _)
FracPairs(rem, d, k) ==
    IF k = 0 THEN <<>>
    ELSE <<(rem * 100) \div d>> \o FracPairs((rem * 100) % d, d, k - 1)

\* the integer square root of the number with these base-100 digits, digit
\* by digit: root is the root of the digits read, rem what they leave
RECURSIVE SqrtPairs(_, _, _)
SqrtPairs(root, rem, pairs) ==
    IF pairs = <<>> THEN root
    ELSE LET cur == rem * 100 + Head(pairs)
             x   == CHOOSE y \in 0..9 :
                        /\ (20 * root + y) * y <= cur
                        /\ y = 9 \/ (20 * root + y + 1) * (y + 1) > cur
         IN  SqrtPairs(root * 10 + x, cur - (20 * root + x) * x, Tail(pairs))

\* the nearest integer to sqrt(x) * 100^k for a rational x >= 0:
\* floor(sqrt(4 * x * 100^(2k)) + 1) div 2
RoundSqrt(x, k) ==
    LET n == 4 * x[1]
    IN  (SqrtPairs(0, 0, Pairs(n \div x[2]) \o FracPairs(n % x[2], x[2], 2 * k)) + 1) \div 2

\* round2(x.sqrt()) in hundredths
Round2OfSqrt(x) == RoundSqrt(x, 1)

Round2Sqrt(var) == JNum(Rat(Round2OfSqrt(var), 100), "2dp")

\* round2((var.sqrt() / mean) * 100.0)
Round2Cv(var, mean) ==
    LET r == FDiv(var, FMul(mean, mean))
        k == RoundSqrt(r, 2)
    IN  JNum(Rat(IF mean[1] < 0 THEN -k ELSE k, 100), "2dp")

\* finalize_num_entry that emits mean as it emits sum
finalize_num_entry_PlainMean(tag, f) ==
    LET var == FDiv(f.sum_sq_diff, FInt(f.count - 1))
        sd_finite == IsFinite(var) /\ FLe(FInt(0), var)
    IN  [type |-> JStr(tag),
         count |-> JInt(f.count),
         sum |-> num_value(f.sum),
         min |-> num_value(f.min),
         max |-> num_value(f.max),
         mean |-> num_value(f.mean),
         sum_sq_diff |-> round2(f.sum_sq_diff),
         variance |-> IF f.count > 1 /\ IsFinite(var) THEN round2(var) ELSE JNull,
         stddev |-> IF f.count > 1 /\ sd_finite THEN Round2Sqrt(var) ELSE JNull,
         coefficient_of_variation_pct |->
             IF f.count > 1 /\ sd_finite /\ f.mean # FInt(0) /\ ~IsNaN(f.mean)
             THEN (IF IsFinite(f.mean) THEN Round2Cv(var, f.mean) ELSE round2(FInt(0)))
             ELSE JNull]

\* finalize_num_entry with the population variance
finalize_num_entry_Population(tag, f) ==
    LET var == FDiv(f.sum_sq_diff, FInt(f.count))
        sd_finite == IsFinite(var) /\ FLe(FInt(0), var)
    IN  [type |-> JStr(tag),
         count |-> JInt(f.count),
         sum |-> num_value(f.sum),
         min |-> num_value(f.min),
         max |-> num_value(f.max),
         mean |-> round2(f.mean),
         sum_sq_diff |-> round2(f.sum_sq_diff),
         variance |-> IF f.count > 1 /\ IsFinite(var) THEN round2(var) ELSE JNull,
         stddev |-> IF f.count > 1 /\ sd_finite THEN Round2Sqrt(var) ELSE JNull,
         coefficient_of_variation_pct |->
             IF f.count > 1 /\ sd_finite /\ f.mean # FInt(0) /\ ~IsNaN(f.mean)
             THEN (IF IsFinite(f.mean) THEN Round2Cv(var, f.mean) ELSE round2(FInt(0)))
             ELSE JNull]

finalize_num_entry(tag, f) ==
    LET var == FDiv(f.sum_sq_diff, FInt(f.count - 1))
        sd_finite == IsFinite(var) /\ FLe(FInt(0), var)
    IN  [type |-> JStr(tag),
         count |-> JInt(f.count),
         sum |-> num_value(f.sum),
         min |-> num_value(f.min),
         max |-> num_value(f.max),
         mean |-> round2(f.mean),
         sum_sq_diff |-> round2(f.sum_sq_diff),
         variance |-> IF f.count > 1 /\ IsFinite(var) THEN round2(var) ELSE JNull,
         stddev |-> IF f.count > 1 /\ sd_finite THEN Round2Sqrt(var) ELSE JNull,
         coefficient_of_variation_pct |->
             IF f.count > 1 /\ sd_finite /\ f.mean # FInt(0) /\ ~IsNaN(f.mean)
             THEN (IF IsFinite(f.mean) THEN Round2Cv(var, f.mean) ELSE round2(FInt(0)))
             ELSE JNull]

EmitCounts(counts) == JObj([k \in DOMAIN counts |-> JInt(counts[k])])

finalize_entry(entry) ==
    CASE entry.variant \in NumVariants -> JObj(finalize_num_entry(type_tag(entry), entry.f))
      [] entry.variant \in {"StrAgg", "BoolAgg"} ->
            JObj([type |-> JStr(type_tag(entry)), counts |-> EmitCounts(entry.counts)])
      [] entry.variant = "ArrAgg" ->
            JObj([type |-> JStr("arr_agg"), count |-> JInt(entry.count),
                  counts |-> EmitCounts(entry.counts)])
      [] entry.variant = "DateAgg" ->
            JObj((IF entry.min_date # None THEN "min" :> JStr(entry.min_date[1]) ELSE EmptyMap)
                 @@ (IF entry.max_date # None THEN "max" :> JStr(entry.max_date[1]) ELSE EmptyMap)
                 @@ [type |-> JStr("date_agg"), counts |-> EmitCounts(entry.counts)])

\* a numeric entry whose mean or sum_sq_diff is not finite makes round2 panic
FinalizePanics(entries) ==
    \E k \in DOMAIN entries :
        /\ entries[k].variant \in NumVariants
        /\ Panic \in {round2(entries[k].f.mean), round2(entries[k].f.sum_sq_diff)}

\* the summary jsonb_stats_final_internal returns for a state with these entries
final_summary(entries) ==
    JObj([k \in DOMAIN entries |-> finalize_entry(entries[k])] @@ ("type" :> JStr("stats_agg")))

(***************************************************************************)
(* parallel.rs: combine, serialize, deserialize.  The bytes are modelled   *)
(* as the JSON document serde_json writes for the derived Serialize of     *)
(* StatsState: {"entries": {key: {Variant: {field: value, ...}}, ...}}.    *)
(***************************************************************************)
\* the loop with the keys state1 does not have left out
RECURSIVE combine_loop_NoInsert(_, _, _)
combine_loop_NoInsert(entries1, entries2, keys) ==
    IF keys = <<>> THEN [err |-> "none", entries |-> entries1]
    ELSE LET key == Head(keys)
             r   == IF key \in DOMAIN entries1
                    THEN merge_agg_entries(entries1[key], entries2[key], key)
                    ELSE Ok(entries2[key])
         IN  IF r.err # "none" THEN [err |-> r.err, entries |-> entries1]
             ELSE IF key \in DOMAIN entries1
             THEN combine_loop_NoInsert((key :> r.entry) @@ entries1, entries2, Tail(keys))
             ELSE combine_loop_NoInsert(entries1, entries2, Tail(keys))

\* the for loop of jsonb_stats_combine over the entries of state2, in the
\* order the HashMap yields them
RECURSIVE combine_loop(_, _, _)
combine_loop(entries1, entries2, keys) ==
    IF keys = <<>> THEN [err |-> "none", entries |-> entries1]
    ELSE LET key == Head(keys)
             r   == IF key \in DOMAIN entries1
                    THEN merge_agg_entries(entries1[key], entries2[key], key)
                    ELSE Ok(entries2[key])
         IN  IF r.err # "none" THEN [err |-> r.err, entries |-> entries1]
             ELSE combine_loop((key :> r.entry) @@ entries1, entries2, Tail(keys))

\* the orders a HashMap with this key set may iterate in
IterationOrders(keys) ==
    {o \in [1..Cardinality(keys) -> keys] : \A i, j \in DOMAIN o : i # j => o[i] # o[j]}

SerOption(o) == IF o = None THEN JNull ELSE JStr(o[1])

SerCounts(counts) == JObj([k \in DOMAIN counts |-> JInt(counts[k])])

\* serialize_f64 writes null for a NaN or an infinity
SerF64(v) == IF IsFinite(v) THEN JNum(v, "f64") ELSE JNull

SerNumFields(f) ==
    JObj([count |-> JInt(f.count),
          sum |-> SerF64(f.sum), min |-> SerF64(f.min),
          max |-> SerF64(f.max), mean |-> SerF64(f.mean),
          sum_sq_diff |-> SerF64(f.sum_sq_diff)])

SerEntry(e) ==
    CASE e.variant \in NumVariants -> JObj(e.variant :> SerNumFields(e.f))
      [] e.variant \in {"StrAgg", "BoolAgg"} ->
            JObj(e.variant :> JObj([counts |-> SerCounts(e.counts)]))
      [] e.variant = "ArrAgg" ->
            JObj("ArrAgg" :> JObj([count |-> JInt(e.count), counts |-> SerCounts(e.counts)]))
      [] e.variant = "DateAgg" ->
            JObj("DateAgg" :> JObj([counts |-> SerCounts(e.counts),
                                    min_date |-> SerOption(e.min_date),
                                    max_date |-> SerOption(e.max_date)]))

\* serde_json::to_vec(state)
jsonb_stats_serial(entries) ==
    JObj([entries |-> JObj([k \in DOMAIN entries |-> SerEntry(entries[k])])])

DeOption(j) == IF j.t = "null" THEN None ELSE Some(j.s)

DeCounts(j) == [k \in DOMAIN j.o |-> j.o[k].q[1]]

DeNumFields(j) ==
    [count |-> j.o.count.q[1], sum |-> j.o.sum.q, min |-> j.o.min.q, max |-> j.o.max.q,
     mean |-> j.o.mean.q, sum_sq_diff |-> j.o.sum_sq_diff.q]

DeEntry(j) ==
    LET variant == CHOOSE v \in DOMAIN j.o : TRUE
        body    == j.o[variant]
    IN  CASE variant \in NumVariants -> NumAgg(variant, DeNumFields(body))
          [] variant = "StrAgg"  -> StrAgg(DeCounts(body.o.counts))
          [] variant = "BoolAgg" -> BoolAgg(DeCounts(body.o.counts))
          [] variant = "ArrAgg"  -> ArrAgg(body.o.count.q[1], DeCounts(body.o.counts))
          [] variant = "DateAgg" ->
                DateAgg(DeCounts(body.o.counts), DeOption(body.o.min_date),
                        DeOption(body.o.max_date))

\* deserialize_f64 rejects null: "invalid type: null, expected f64"
DeEntryFails(j) ==
    LET variant == CHOOSE v \in DOMAIN j.o : TRUE
        body    == j.o[variant]
    IN  /\ variant \in NumVariants
        /\ \E fld \in {"sum", "min", "max", "mean", "sum_sq_diff"} : body.o[fld].t # "num"

\* serde_json::from_slice(&bytes): the entries of the state the bytes encode,
\* or the error of the unwrap_or_else
jsonb_stats_deserial(bytes) ==
    IF \E k \in DOMAIN bytes.o.entries.o : DeEntryFails(bytes.o.entries.o[k])
    THEN [err |-> "DeserializationFailed", entries |-> EmptyMap]
    ELSE [err |-> "none",
          entries |-> [k \in DOMAIN bytes.o.entries.o |-> DeEntry(bytes.o.entries.o[k])]]

(***************************************************************************)
(* merge.rs: the JSON merger (jsonb_stats_merge), a strict SQL function on *)
(* two summaries.                                                          *)
(***************************************************************************)
merge_num_agg(a, b) ==
    LET count_a == get_f64(a, "count")
        count_b == get_f64(b, "count")
        total_count == FAdd(count_a, count_b)
        mean_a  == get_f64(a, "mean")
        delta   == FSub(get_f64(b, "mean"), mean_a)
        new_ssd == FAdd(FAdd(get_f64(a, "sum_sq_diff"), get_f64(b, "sum_sq_diff")),
                        FDiv(FMul(FMul(FMul(delta, delta), count_a), count_b), total_count))
    IN  JObj([type |-> JStr(get_type(a)),
              count |-> num_value(total_count),
              sum |-> num_value(FAdd(get_f64(a, "sum"), get_f64(b, "sum"))),
              min |-> num_value(IF FLt(get_f64(b, "min"), get_f64(a, "min"))
                                THEN get_f64(b, "min") ELSE get_f64(a, "min")),
              max |-> num_value(IF FLt(get_f64(a, "max"), get_f64(b, "max"))
                                THEN get_f64(b, "max") ELSE get_f64(a, "max")),
              mean |-> num_value(FAdd(mean_a, FDiv(FMul(delta, count_b), total_count))),
              sum_sq_diff |-> num_value(new_ssd)])

\* the counts object of a with every (k, v) of b's counts added in
MergeJsonCounts(a_obj, b_obj) ==
    LET counts_a == IF Get(a_obj, "counts").t = "obj" THEN a_obj.counts.o ELSE EmptyMap
        counts_b == IF Get(b_obj, "counts").t = "obj" THEN b_obj.counts.o ELSE EmptyMap
    IN  JObj([k \in DOMAIN counts_a \cup DOMAIN counts_b |->
                IF k \in DOMAIN counts_b
                THEN JInt((IF k \in DOMAIN counts_a THEN ParseI64(counts_a[k]) ELSE 0)
                          + ParseI64(counts_b[k]))
                ELSE counts_a[k]])

merge_count_agg(a_obj, b_obj, is_arr) ==
    LET a1 == IF is_arr
              THEN ("count" :> JInt(get_i64(a_obj, "count") + get_i64(b_obj, "count"))) @@ a_obj
              ELSE a_obj
    IN  JObj(("counts" :> MergeJsonCounts(a_obj, b_obj)) @@ a1)

merge_date_agg(a_obj, b_obj) ==
    LET a1 == ("counts" :> MergeJsonCounts(a_obj, b_obj)) @@ a_obj
        b_min == get_str(b_obj, "min")
        a2 == IF b_min # None
                 /\ (get_str(a1, "min") = None \/ StrLt(b_min[1], get_str(a1, "min")[1]))
              THEN ("min" :> JStr(b_min[1])) @@ a1 ELSE a1
        b_max == get_str(b_obj, "max")
        a3 == IF b_max # None
                 /\ (get_str(a2, "max") = None \/ StrLt(get_str(a2, "max")[1], b_max[1]))
              THEN ("max" :> JStr(b_max[1])) @@ a2 ELSE a2
    IN  JObj(a3)

merge_summaries(a, b) ==
    IF a.t # "obj" THEN Ok(b)
    ELSE IF b.t # "obj" THEN Ok(a)
    ELSE IF get_type(a.o) # get_type(b.o) THEN Raise("TypeMismatch")
    ELSE CASE get_type(a.o) \in {"int_agg", "float_agg", "dec2_agg", "nat_agg"} ->
                Ok(merge_num_agg(a.o, b.o))
           [] get_type(a.o) \in {"str_agg", "bool_agg"} -> Ok(merge_count_agg(a.o, b.o, FALSE))
           [] get_type(a.o) = "arr_agg"  -> Ok(merge_count_agg(a.o, b.o, TRUE))
           [] get_type(a.o) = "date_agg" -> Ok(merge_date_agg(a.o, b.o))
           [] OTHER -> Raise("UnknownAggType")

\* the for loop of jsonb_stats_merge over the keys of b left
RECURSIVE merge_json_loop(_, _, _)
merge_json_loop(merged, b_map, keys) ==
    IF keys = <<>> THEN [err |-> "none", value |-> JObj(merged)]
    ELSE LET key == Head(keys)
         IN  IF key = "type" THEN merge_json_loop(merged, b_map, Tail(keys))
             ELSE IF key \in DOMAIN merged
             THEN LET r == merge_summaries(merged[key], b_map[key])
                  IN  IF r.err # "none" THEN [err |-> r.err, value |-> JNull]
                      ELSE merge_json_loop((key :> r.entry) @@ merged, b_map, Tail(keys))
             ELSE merge_json_loop((key :> b_map[key]) @@ merged, b_map, Tail(keys))

jsonb_stats_merge(a, b) ==
    LET merged == IF a.t = "obj" THEN a.o ELSE EmptyMap
    IN  IF b.t # "obj" THEN [err |-> "none", value |-> JObj(merged)]
        ELSE merge_json_loop(merged, b.o, KeysInOrder(b.o))

(***************************************************************************)
(* accum.rs and final_fn.rs: the JSON-state path (jsonb_stats_accum and    *)
(* jsonb_stats_final), whose state is the summary document itself.         *)
(***************************************************************************)
\* counts with 1 added under every key of delta as many times as delta
\* says, each existing value read with n.to_string().parse::<i64>()
JsonCountsAdd(obj, delta) ==
    LET counts == IF Get(obj, "counts").t = "obj" THEN obj.counts.o ELSE EmptyMap
    IN  JObj([k \in DOMAIN counts \cup DOMAIN delta |->
                IF k \in DOMAIN delta
                THEN JInt((IF k \in DOMAIN counts THEN ParseI64(counts[k]) ELSE 0) + delta[k])
                ELSE counts[k]])

init_summary(stat, stat_type) ==
    LET val == get_f64(stat, "value")
        init_num_agg(agg_type) ==
            JObj([type |-> JStr(agg_type), count |-> JInt(1), sum |-> num_value(val),
                  min |-> num_value(val), max |-> num_value(val), mean |-> num_value(val),
                  sum_sq_diff |-> JInt(0)])
        init_str_or_bool_agg(agg_type) ==
            IF Get(stat, "value").t \notin {"str", "bool", "num"} THEN Raise("InvalidValue")
            ELSE Ok(JObj([type |-> JStr(agg_type),
                          counts |-> JObj(value_to_string(stat)[1] :> JInt(1))]))
        init_arr_agg ==
            JObj([type |-> JStr("arr_agg"), count |-> JInt(1),
                  counts |-> JsonCountsAdd(EmptyMap, collect_arr_counts(stat, EmptyMap))])
        init_date_agg ==
            IF Get(stat, "value").t # "str" THEN Raise("InvalidValue")
            ELSE Ok(JObj([type |-> JStr("date_agg"),
                          counts |-> JObj(Get(stat, "value").s :> JInt(1)),
                          min |-> Get(stat, "value"), max |-> Get(stat, "value")]))
    IN  CASE stat_type = "int"   -> Ok(init_num_agg("int_agg"))
          [] stat_type = "float" -> Ok(init_num_agg("float_agg"))
          [] stat_type = "dec2"  -> Ok(init_num_agg("dec2_agg"))
          [] stat_type = "nat"   -> IF FLt(val, FInt(0)) THEN Raise("InvalidValue")
                                    ELSE Ok(init_num_agg("nat_agg"))
          [] stat_type = "str"   -> init_str_or_bool_agg("str_agg")
          [] stat_type = "bool"  -> init_str_or_bool_agg("bool_agg")
          [] stat_type = "arr"   -> Ok(init_arr_agg)
          [] stat_type = "date"  -> init_date_agg
          [] OTHER               -> Raise("UnknownStatType")

\* the incoming stat's type decides; the summary's own type tag is not read
update_summary(current, stat, stat_type) ==
    LET obj == current.o
        val == get_f64(stat, "value")
        update_num_agg ==
            LET count    == FAdd(get_f64(obj, "count"), FInt(1))
                old_mean == get_f64(obj, "mean")
                delta    == FSub(val, old_mean)
                new_mean == FAdd(old_mean, FDiv(delta, count))
                new_ssd  == FAdd(get_f64(obj, "sum_sq_diff"), FMul(delta, FSub(val, new_mean)))
            IN  JObj([count |-> num_value(count),
                      sum |-> num_value(FAdd(get_f64(obj, "sum"), val)),
                      min |-> num_value(IF FLt(val, get_f64(obj, "min")) \/ IsNaN(get_f64(obj, "min"))
                                        THEN val ELSE get_f64(obj, "min")),
                      max |-> num_value(IF FLt(get_f64(obj, "max"), val) \/ IsNaN(get_f64(obj, "max"))
                                        THEN val ELSE get_f64(obj, "max")),
                      mean |-> num_value(new_mean),
                      sum_sq_diff |-> num_value(new_ssd)] @@ obj)
        update_str_or_bool_agg ==
            IF Get(stat, "value").t \notin {"str", "bool", "num"} THEN JObj(obj)
            ELSE JObj(("counts" :> JsonCountsAdd(obj, value_to_string(stat)[1] :> 1)) @@ obj)
        update_arr_agg ==
            JObj([count |-> JInt(get_i64(obj, "count") + 1),
                  counts |-> JsonCountsAdd(obj, collect_arr_counts(stat, EmptyMap))] @@ obj)
        update_date_agg ==
            IF Get(stat, "value").t # "str" THEN JObj(obj)
            ELSE LET date_str == Get(stat, "value").s
                     o1 == ("counts" :> JsonCountsAdd(obj, date_str :> 1)) @@ obj
                     o2 == IF get_str(o1, "min") # None /\ StrLt(date_str, get_str(o1, "min")[1])
                           THEN ("min" :> JStr(date_str)) @@ o1 ELSE o1
                     o3 == IF get_str(o2, "max") # None /\ StrLt(get_str(o2, "max")[1], date_str)
                           THEN ("max" :> JStr(date_str)) @@ o2 ELSE o2
                 IN  JObj(o3)
    IN  IF current.t # "obj" THEN init_summary(stat, stat_type)
        ELSE CASE stat_type \in {"int", "float", "dec2"} -> Ok(update_num_agg)
               [] stat_type = "nat"  -> IF FLt(val, FInt(0)) THEN Raise("InvalidValue")
                                        ELSE Ok(update_num_agg)
               [] stat_type \in {"str", "bool"} -> Ok(update_str_or_bool_agg)
               [] stat_type = "arr"  -> Ok(update_arr_agg)
               [] stat_type = "date" -> Ok(update_date_agg)
               [] OTHER              -> Raise("UnknownStatType")

\* the for loop of jsonb_stats_accum over the keys of stats left
RECURSIVE accum_json_loop(_, _, _)
accum_json_loop(new_state, stats_map, keys) ==
    IF keys = <<>> THEN [err |-> "none", value |-> JObj(new_state)]
    ELSE LET key      == Head(keys)
             stat_obj == stats_map[key]
         IN  IF key = "type" \/ stat_obj.t # "obj" \/ Get(stat_obj.o, "type").t # "str"
             THEN accum_json_loop(new_state, stats_map, Tail(keys))
             ELSE LET stat_type == Get(stat_obj.o, "type").s
                      r == IF key \in DOMAIN new_state
                           THEN update_summary(new_state[key], stat_obj.o, stat_type)
                           ELSE init_summary(stat_obj.o, stat_type)
                  IN  IF r.err # "none" THEN [err |-> r.err, value |-> JNull]
                      ELSE accum_json_loop((key :> r.entry) @@ new_state, stats_map, Tail(keys))

jsonb_stats_accum(state, stats) ==
    LET new_state == IF state.t = "obj" THEN state.o ELSE EmptyMap
    IN  IF stats.t # "obj" THEN [err |-> "none", value |-> JObj(new_state)]
        ELSE accum_json_loop(new_state, stats.o, KeysInOrder(stats.o))

finalize_num_agg(obj) ==
    LET count == get_f64(obj, "count")
        mean  == get_f64(obj, "mean")
        ssd   == get_f64(obj, "sum_sq_diff")
        var   == FDiv(ssd, FSub(count, FInt(1)))
        many  == FLt(FInt(1), count)
        sd_finite == IsFinite(var) /\ FLe(FInt(0), var)
    IN  [mean |-> round2(mean),
         sum_sq_diff |-> round2(ssd),
         variance |-> IF many /\ IsFinite(var) THEN round2(var) ELSE JNull,
         stddev |-> IF many /\ sd_finite THEN Round2Sqrt(var) ELSE JNull,
         coefficient_of_variation_pct |->
             IF many /\ sd_finite /\ mean # FInt(0) /\ ~IsNaN(mean)
             THEN (IF IsFinite(mean) THEN Round2Cv(var, mean) ELSE round2(FInt(0)))
             ELSE JNull] @@ obj

\* jsonb_stats_final(state); a panic of round2 is an error
jsonb_stats_final(state) ==
    IF state.t # "obj" THEN [err |-> "none", value |-> state]
    ELSE LET IsNum(v) == v.t = "obj"
                          /\ get_type(v.o) \in {"int_agg", "float_agg", "dec2_agg", "nat_agg"}
             fin == [k \in DOMAIN state.o \ {"type"} |->
                        IF IsNum(state.o[k]) THEN JObj(finalize_num_agg(state.o[k].o))
                        ELSE state.o[k]]
         IN  IF \E k \in DOMAIN fin :
                    IsNum(state.o[k]) /\ Panic \in {fin[k].o.mean, fin[k].o.sum_sq_diff}
             THEN [err |-> "Panic", value |-> JNull]
             ELSE [err |-> "none", value |-> JObj(fin @@ ("type" :> JStr("stats_agg")))]

(***************************************************************************)
(* State.                                                                  *)
(***************************************************************************)
VARIABLES
    wf_seq,      \* Welford: the aggregate built by init; update; ...; update
    wf_parts,    \* Welford: bag of the sub-aggregates not merged yet
    wf_fed,      \* Welford: number of values fed so far
    wf_merges,   \* Welford: number of merge calls so far
    stmt,        \* the SQL statement that runs: an aggregate or nested scalar calls
    heap,        \* the Box allocations made so far: pointer -> entries, number of frees
    phase,       \* per worker: "scan", "sent", "ready" or "combined"
    wstate,      \* per worker: its transition state (a pointer or NULL)
    wlog,        \* per worker: the inputs its sfunc was called with, in order
    wire,        \* per worker: the bytes under way to the leader
    inbox,       \* per worker: its partial state as the leader holds it
    lstate,      \* the leader's combined state (a pointer or NULL)
    result,      \* None, or Some(value) the statement (or its last call) returned
    failed,      \* "none", or the kind of the error that aborted the statement
    ncalls,      \* number of sfunc or scalar calls so far
    ref,         \* one state accumulating every input in arrival order
    last         \* the last call: its name, arguments and outcome

wf_vars == <<wf_seq, wf_parts, wf_fed, wf_merges>>

pr_vars == <<stmt, heap, phase, wstate, wlog, wire, inbox, lstate, result, failed, ncalls,
             ref, last>>

vars == <<wf_vars, pr_vars>>

(***************************************************************************)
(* SpecWelford: a stream of values is fed one value at a time.  Each value *)
(* goes to the sequential aggregate and to one sub-aggregate (a new one,   *)
(* NumFields::init, or an existing one, NumFields::update); any two        *)
(* sub-aggregates may be merged at any time (NumFields::merge), so every   *)
(* split of the stream and every binary merge tree is a behaviour.         *)
(***************************************************************************)
NoNum == [count |-> 0]

\* the values of the streams: 1, 2, 4, -3 and 1/2
WelfordValues == {FInt(1), FInt(2), FInt(4), FInt(-3), Rat(1, 2)}

InitWelford ==
    /\ wf_seq = NoNum
    /\ wf_parts = EmptyBag
    /\ wf_fed = 0
    /\ wf_merges = 0
    /\ stmt = "none"
    /\ heap = <<>>
    /\ phase = <<>>
    /\ wstate = <<>>
    /\ wlog = <<>>
    /\ wire = <<>>
    /\ inbox = <<>>
    /\ lstate = <<>>
    /\ result = None
    /\ failed = "none"
    /\ ncalls = 0
    /\ ref = [err |-> "none", entries |-> EmptyMap]
    /\ last = [op |-> "none"]

WelfordInit(v) ==
    /\ wf_fed < MaxLen
    /\ wf_seq' = IF wf_fed = 0 THEN NumFields_init(v) ELSE NumFields_update(wf_seq, v)
    /\ wf_parts' = wf_parts (+) SetToBag({NumFields_init(v)})
    /\ wf_fed' = wf_fed + 1
    /\ UNCHANGED <<wf_merges, pr_vars>>

WelfordUpdate(v, p) ==
    /\ wf_fed < MaxLen
    /\ wf_fed > 0
    /\ wf_seq' = NumFields_update(wf_seq, v)
    /\ wf_parts' = (wf_parts (-) SetToBag({p})) (+) SetToBag({NumFields_update(p, v)})
    /\ wf_fed' = wf_fed + 1
    /\ UNCHANGED <<wf_merges, pr_vars>>

WelfordMerge(a, b) ==
    /\ BagCardinality(wf_parts) >= 2
    /\ BagIn(b, wf_parts (-) SetToBag({a}))
    /\ wf_parts' = ((wf_parts (-) SetToBag({a})) (-) SetToBag({b}))
                      (+) SetToBag({NumFields_merge(a, b)})
    /\ wf_merges' = wf_merges + 1
    /\ UNCHANGED <<wf_seq, wf_fed, pr_vars>>

NextWelford ==
    \/ \E v \in WelfordValues : WelfordInit(v)
    \/ \E v \in WelfordValues : \E p \in BagToSet(wf_parts) : WelfordUpdate(v, p)
    \/ \E a \in BagToSet(wf_parts) : \E b \in BagToSet(wf_parts) : WelfordMerge(a, b)

SpecWelford == InitWelford /\ [][NextWelford]_vars

\* C1: Welford equivalence.  Whenever the whole stream fed so far has been
\* combined into one aggregate -- whatever the split into sub-streams and
\* whatever the merge tree -- that aggregate has the count, sum, min, max,
\* mean and sum_sq_diff of the aggregate built sequentially by init and
\* update over the same stream.
WelfordEquivalence ==
    (wf_fed >= 1 /\ BagCardinality(wf_parts) = 1) => BagToSet(wf_parts) = {wf_seq}

\* a stream of MaxLen values, split in three or more sub-streams, merged into one
WelfordWitness ==
    /\ wf_fed = MaxLen
    /\ wf_merges >= 2
    /\ BagCardinality(wf_parts) = 1
    /\ wf_seq.sum_sq_diff # FInt(0)
    /\ wf_seq.mean[2] # 1

(***************************************************************************)
(* Spec: one SQL statement.  It is an aggregate, jsonb_stats_agg(stats) or *)
(* jsonb_stats_merge_agg(stats_agg), run by the host's aggregate protocol: *)
(* every worker folds its rows with the sfunc into a state of its own,     *)
(* ships the state to the leader (through serial and deserial, or handed   *)
(* over as it is), the leader combines the partial states one by one and   *)
(* calls the final function.  Or it is a nest of calls of the scalar       *)
(* function jsonb_stats_merge.  An error aborts the statement.             *)
(***************************************************************************)
\* number of workers of a parallel aggregate
NumWorkers == 2

\* most sfunc calls (rows) of an aggregate, and most scalar calls of a nest
MaxCalls == 3

Workers == 1..NumWorkers

Aggregates == {"jsonb_stats_agg", "jsonb_stats_merge_agg"}

\* what stat(value) builds: {"type": ..., "value": ...}
Stat(type, value) == JObj([type |-> JStr(type), value |-> value])

Date1 == <<"2", "0", "2", "4", "-", "0", "1", "-", "0", "2">>

Date2 == <<"2", "0", "2", "3", "-", "1", "2", "-", "3", "1">>

\* the rows jsonb_stats_agg is fed
StatsRows ==
    { JObj([a |-> Stat("int", JInt(1))]),
      JObj([a |-> Stat("int", JInt(2))]),
      JObj([a |-> Stat("str", JStr(<<"x">>))]),
      JObj([a |-> Stat("foo", JInt(1))]),
      JObj([b |-> Stat("arr", JStr(<<"{", "x", ",", " ", "y", "}">>))]),
      JObj([b |-> Stat("arr", JArr(<<JStr(<<"y">>), JInt(1), JBool(TRUE), JNull>>))]),
      JObj([b |-> Stat("date", JStr(Date1))]),
      JObj([b |-> Stat("date", JStr(Date2))]),
      JObj([type |-> JStr("stats"),
            a |-> Stat("str", JStr(<<"y">>)),
            b |-> Stat("bool", JBool(TRUE))]),
      JNull }

\* the entries after accumulating the rows in order from these entries
RECURSIVE AccumAll(_, _)
AccumAll(entries, rows) ==
    IF rows = <<>> THEN entries
    ELSE AccumAll(accum_sfunc_entries(entries, Head(rows)).entries, Tail(rows))

\* the summaries jsonb_stats_merge_agg and jsonb_stats_merge are fed:
\* finalized states, a summary with no field keys, a numeric summary
\* without a count, a summary of an unknown type, and a non-object
Summaries ==
    { final_summary(AccumAll(EmptyMap, <<JObj([a |-> Stat("int", JInt(1))]),
                                         JObj([a |-> Stat("int", JInt(2))]),
                                         JObj([a |-> Stat("int", JInt(2))])>>)),
      final_summary(AccumAll(EmptyMap, <<JObj([a |-> Stat("int", JInt(2))]),
                                         JObj([b |-> Stat("date", JStr(Date1))])>>)),
      final_summary(AccumAll(EmptyMap, <<JObj([a |-> Stat("str", JStr(<<"x">>))]),
                                         JObj([b |-> Stat("date", JStr(Date2))])>>)),
      final_summary(AccumAll(EmptyMap,
                             <<JObj([b |-> Stat("arr", JStr(<<"{", "x", ",", " ", "y", "}">>))])>>)),
      JObj([type |-> JStr("stats_agg")]),
      JObj([a |-> JObj([type |-> JStr("int_agg")])]),
      JObj([a |-> JObj([type |-> JStr("foo_agg")])]),
      JNum(FInt(7), "int") }

\* jsonb_stats_merge_sfunc takes Option<JsonB>
MergeInputs == {None} \cup {Some(x) : x \in Summaries}

\* an Internal that is SQL NULL
NULL == <<>>

\* Box::into_raw(Box::new(state)): the address is named after the call that
\* allocates, <<"sfunc", w>>, <<"deserial", w>> or <<"combine">>; each of
\* them allocates at most once in a statement
Alloc(h, p, entries) == (p :> [entries |-> entries, frees |-> 0]) @@ h

\* drop of the Box at p
Free(h, p) == [h EXCEPT ![p].frees = @ + 1]

FreeAll(h, ps) == [p \in DOMAIN h |-> IF p \in ps THEN [h[p] EXCEPT !.frees = @ + 1] ELSE h[p]]

\* the state behind an Internal; NULL reads as StatsState::default()
EntriesOf(h, p) == IF p = NULL THEN StatsState_default ELSE h[p].entries

\* the state every statement starts in
Start ==
    /\ wf_seq = NoNum
    /\ wf_parts = EmptyBag
    /\ wf_fed = 0
    /\ wf_merges = 0
    /\ heap = <<>>
    /\ phase = [w \in Workers |-> "scan"]
    /\ wstate = [w \in Workers |-> NULL]
    /\ wlog = [w \in Workers |-> <<>>]
    /\ wire = [w \in Workers |-> None]
    /\ inbox = [w \in Workers |-> NULL]
    /\ lstate = NULL
    /\ result = None
    /\ failed = "none"
    /\ ncalls = 0
    /\ ref = [err |-> "none", entries |-> EmptyMap]
    /\ last = [op |-> "none"]

\* jsonb_stats_accum_sfunc(internal, stats) called by worker w
AccumSfunc(w, stats) ==
    /\ stmt = "jsonb_stats_agg"
    /\ failed = "none"
    /\ phase[w] = "scan"
    /\ ncalls < MaxCalls
    /\ LET internal  == wstate[w]
           state_ptr == IF internal = NULL THEN <<"sfunc", w>> ELSE internal
           h0        == IF internal = NULL THEN Alloc(heap, state_ptr, StatsState_default)
                        ELSE heap
           r         == accum_sfunc_entries(h0[state_ptr].entries, stats)
       IN  /\ heap' = [h0 EXCEPT ![state_ptr].entries = r.entries]
           /\ failed' = r.err
           /\ wstate' = IF r.err = "none" THEN [wstate EXCEPT ![w] = state_ptr] ELSE wstate
           /\ last' = [op |-> "accum_sfunc", w |-> w, arg |-> stats, state |-> internal,
                       pre |-> h0[state_ptr].entries, err |-> r.err,
                       ret |-> IF r.err = "none" THEN state_ptr ELSE NULL]
    /\ ref' = IF ref.err = "none" THEN accum_sfunc_entries(ref.entries, stats) ELSE ref
    /\ wlog' = [wlog EXCEPT ![w] = Append(@, stats)]
    /\ ncalls' = ncalls + 1
    /\ UNCHANGED <<stmt, phase, wire, inbox, lstate, result, wf_vars>>

\* jsonb_stats_merge_sfunc(internal, agg) called by worker w
MergeSfunc(w, agg) ==
    /\ stmt = "jsonb_stats_merge_agg"
    /\ failed = "none"
    /\ phase[w] = "scan"
    /\ ncalls < MaxCalls
    /\ LET internal  == wstate[w]
           state_ptr == IF internal = NULL THEN <<"sfunc", w>> ELSE internal
           h0        == IF internal = NULL THEN Alloc(heap, state_ptr, StatsState_default)
                        ELSE heap
           r         == merge_sfunc_entries(h0[state_ptr].entries, agg)
       IN  /\ heap' = [h0 EXCEPT ![state_ptr].entries = r.entries]
           /\ failed' = r.err
           /\ wstate' = IF r.err = "none" THEN [wstate EXCEPT ![w] = state_ptr] ELSE wstate
           /\ last' = [op |-> "merge_sfunc", w |-> w, arg |-> agg, state |-> internal,
                       pre |-> h0[state_ptr].entries, err |-> r.err,
                       ret |-> IF r.err = "none" THEN state_ptr ELSE NULL]
    /\ ref' = IF ref.err = "none" THEN merge_sfunc_entries(ref.entries, agg) ELSE ref
    /\ wlog' = [wlog EXCEPT ![w] = Append(@, agg)]
    /\ ncalls' = ncalls + 1
    /\ UNCHANGED <<stmt, phase, wire, inbox, lstate, result, wf_vars>>

\* jsonb_stats_serial(internal) called by worker w at the end of its scan:
\* the state is borrowed and the bytes go to the leader
Serial(w) ==
    /\ stmt \in Aggregates
    /\ failed = "none"
    /\ phase[w] = "scan"
    /\ wire' = [wire EXCEPT ![w] = Some(jsonb_stats_serial(EntriesOf(heap, wstate[w])))]
    /\ phase' = [phase EXCEPT ![w] = "sent"]
    /\ last' = [op |-> "serial", w |-> w, state |-> wstate[w]]
    /\ UNCHANGED <<stmt, heap, wstate, wlog, inbox, lstate, result, failed, ncalls, ref,
                   wf_vars>>

\* the host hands the worker's state to the combine step without a hop
HandOver(w) ==
    /\ stmt \in Aggregates
    /\ failed = "none"
    /\ phase[w] = "scan"
    /\ inbox' = [inbox EXCEPT ![w] = wstate[w]]
    /\ phase' = [phase EXCEPT ![w] = "ready"]
    /\ last' = [op |-> "handover", w |-> w, state |-> wstate[w]]
    /\ UNCHANGED <<stmt, heap, wstate, wlog, wire, lstate, result, failed, ncalls, ref,
                   wf_vars>>

\* jsonb_stats_deserial(bytes, _) called by the leader on worker w's bytes
Deserial(w) ==
    /\ failed = "none"
    /\ phase[w] = "sent"
    /\ LET r == jsonb_stats_deserial(wire[w][1])
       IN  /\ heap' = IF r.err = "none" THEN Alloc(heap, <<"deserial", w>>, r.entries)
                      ELSE heap
           /\ inbox' = IF r.err = "none" THEN [inbox EXCEPT ![w] = <<"deserial", w>>]
                       ELSE inbox
           /\ failed' = r.err
           /\ last' = [op |-> "deserial", w |-> w, bytes |-> wire[w][1], err |-> r.err,
                       ret |-> IF r.err = "none" THEN <<"deserial", w>> ELSE NULL]
    /\ wire' = [wire EXCEPT ![w] = None]
    /\ phase' = [phase EXCEPT ![w] = "ready"]
    /\ UNCHANGED <<stmt, wstate, wlog, lstate, result, ncalls, ref, wf_vars>>

\* no Box is taken back: both states are only borrowed
combine_drops_Borrow(state1, state2) == {}

\* the allocations jsonb_stats_combine takes ownership of: Box::from_raw(p2)
combine_drops(state1, state2) ==
    IF state1 # NULL /\ state2 # NULL THEN {state2} ELSE {}

\* jsonb_stats_combine that answers a NULL state1 with a fresh default state
jsonb_stats_combine_FreshOnNull(h, state1, state2, order) ==
    IF state1 = NULL
    THEN [heap |-> Alloc(h, <<"combine">>, StatsState_default), ret |-> <<"combine">>,
          err |-> "none"]
    ELSE IF state2 = NULL THEN [heap |-> h, ret |-> state1, err |-> "none"]
    ELSE LET r == combine_loop(h[state1].entries, h[state2].entries, order)
         IN  [heap |-> FreeAll([h EXCEPT ![state1].entries = r.entries],
                               combine_drops(state1, state2)),
              ret  |-> IF r.err = "none" THEN state1 ELSE NULL,
              err  |-> r.err]

\* jsonb_stats_combine(state1, state2) on heap h, the HashMap of state2
\* iterating in this order: the heap after the call, the state returned
\* and the error raised
jsonb_stats_combine(h, state1, state2, order) ==
    IF state1 = NULL /\ state2 = NULL
    THEN [heap |-> Alloc(h, <<"combine">>, StatsState_default), ret |-> <<"combine">>,
          err |-> "none"]
    ELSE IF state2 = NULL THEN [heap |-> h, ret |-> state1, err |-> "none"]
    ELSE IF state1 = NULL THEN [heap |-> h, ret |-> state2, err |-> "none"]
    ELSE LET r == combine_loop(h[state1].entries, h[state2].entries, order)
         IN  [heap |-> FreeAll([h EXCEPT ![state1].entries = r.entries],
                               combine_drops(state1, state2)),
              ret  |-> IF r.err = "none" THEN state1 ELSE NULL,
              err  |-> r.err]

\* the leader combines worker w's partial state into its own
Combine(w, order) ==
    /\ failed = "none"
    /\ phase[w] = "ready"
    /\ LET r == jsonb_stats_combine(heap, lstate, inbox[w], order)
       IN  /\ heap' = r.heap
           /\ failed' = r.err
           /\ lstate' = IF r.err = "none" THEN r.ret ELSE lstate
           /\ last' = [op |-> "combine", w |-> w, state1 |-> lstate, state2 |-> inbox[w],
                       pre1 |-> EntriesOf(heap, lstate), pre2 |-> EntriesOf(heap, inbox[w]),
                       err |-> r.err, ret |-> r.ret]
    /\ phase' = [phase EXCEPT ![w] = "combined"]
    /\ UNCHANGED <<stmt, wstate, wlog, wire, inbox, result, ncalls, ref, wf_vars>>

\* jsonb_stats_final_internal(internal) called by the leader once every
\* partial state is combined; a panic of round2 unwinds and drops the Box
Final ==
    /\ stmt \in Aggregates
    /\ failed = "none"
    /\ result = None
    /\ \A w \in Workers : phase[w] = "combined"
    /\ heap' = IF lstate = NULL THEN heap ELSE Free(heap, lstate)
    /\ failed' = IF FinalizePanics(EntriesOf(heap, lstate)) THEN "Panic" ELSE "none"
    /\ result' = IF lstate = NULL THEN Some(JObj([type |-> JStr("stats_agg")]))
                 ELSE IF FinalizePanics(heap[lstate].entries) THEN None
                 ELSE Some(final_summary(heap[lstate].entries))
    /\ last' = [op |-> "final", state |-> lstate, pre |-> EntriesOf(heap, lstate),
                err |-> failed']
    /\ UNCHANGED <<stmt, phase, wstate, wlog, wire, inbox, lstate, ncalls, ref, wf_vars>>

\* jsonb_stats_merge(a, b): each argument is a summary of the alphabet or
\* the value of the call before
ScalarMerge(a, b) ==
    /\ stmt = "jsonb_stats_merge"
    /\ failed = "none"
    /\ ncalls < MaxCalls
    /\ LET r == jsonb_stats_merge(a, b)
       IN  /\ result' = IF r.err = "none" THEN Some(r.value) ELSE result
           /\ failed' = r.err
           /\ last' = [op |-> "jsonb_stats_merge", a |-> a, b |-> b, err |-> r.err,
                       out |-> r.value]
    /\ ncalls' = ncalls + 1
    /\ UNCHANGED <<stmt, heap, phase, wstate, wlog, wire, inbox, lstate, ref, wf_vars>>

ScalarArgs == Summaries \cup {result[i] : i \in DOMAIN result}

\* the options of the two CREATE AGGREGATE statements over the native state
AggregateDefs ==
    [jsonb_stats_agg |->
        [sfunc |-> "jsonb_stats_accum_sfunc", stype |-> "internal",
         finalfunc |-> "jsonb_stats_final_internal"],
     jsonb_stats_merge_agg |->
        [sfunc |-> "jsonb_stats_merge_sfunc", stype |-> "internal",
         finalfunc |-> "jsonb_stats_final_internal"]]

\* SpecAgg: the statement is SELECT jsonb_stats_agg(stats) FROM ...
InitAgg == Start /\ stmt = "jsonb_stats_agg"

NextAgg ==
    \/ \E w \in Workers : \E stats \in StatsRows : AccumSfunc(w, stats)
    \/ \E w \in Workers : Serial(w)
    \/ \E w \in Workers : HandOver(w)
    \/ \E w \in Workers : Deserial(w)
    \/ \E w \in Workers :
          \E order \in IterationOrders(DOMAIN EntriesOf(heap, inbox[w])) : Combine(w, order)
    \/ Final

SpecAgg == InitAgg /\ [][NextAgg]_vars

\* SpecMerge: the statement is SELECT jsonb_stats_merge_agg(stats_agg) FROM ...
\* or a nest of jsonb_stats_merge(a, b) calls
InitMerge == Start /\ stmt \in {"jsonb_stats_merge_agg", "jsonb_stats_merge"}

NextMerge ==
    \/ \E w \in Workers : \E agg \in MergeInputs : MergeSfunc(w, agg)
    \/ \E w \in Workers : Serial(w)
    \/ \E w \in Workers : HandOver(w)
    \/ \E w \in Workers : Deserial(w)
    \/ \E w \in Workers :
          \E order \in IterationOrders(DOMAIN EntriesOf(heap, inbox[w])) : Combine(w, order)
    \/ Final
    \/ \E a \in ScalarArgs : \E b \in ScalarArgs : ScalarMerge(a, b)

SpecMerge == InitMerge /\ [][NextMerge]_vars

\* SpecSeq: an aggregate whose rows are all scanned by worker 1, fed stats
\* rows or summaries of every type, well-formed and not
SeqRows ==
    { JObj([a |-> Stat("int", JInt(1))]),
      JObj([a |-> Stat("int", JInt(2))]),
      JObj([a |-> Stat("int", JInt(-1))]),
      JObj([a |-> Stat("nat", JInt(2))]),
      JObj([a |-> Stat("nat", JInt(-1))]),
      JObj([a |-> Stat("float", JNum(Rat(1, 8), "f64"))]),
      JObj([a |-> Stat("dec2", JNum(Rat(5, 2), "2dp"))]),
      JObj([a |-> Stat("str", JStr(<<"x">>))]),
      JObj([a |-> JObj([type |-> JStr("str")])]),
      JObj([a |-> Stat("bool", JNull)]),
      JObj([a |-> Stat("bool", JBool(TRUE))]),
      JObj([a |-> Stat("date", JStr(Date1))]),
      JObj([a |-> Stat("date", JInt(42))]),
      JInt(7),
      JObj([type |-> JStr("stats"), a |-> JInt(7)]),
      JObj([a |-> JObj([value |-> JInt(1)])]),
      JObj([a |-> Stat("arr", JStr(<<"{", "x", ",", " ", "y", "}">>))]),
      JObj([a |-> Stat("arr", JStr(<<"{", "{", "x", ",", " ", "y", "}", "}">>))]),
      JObj([a |-> Stat("bool", JStr(<<"t", "r", "u", "e">>))]),
      JObj([a |-> Stat("str", JInt(1))]),
      JObj([a |-> Stat("str", JStr(<<"1">>))]) }

SeqSummaries ==
    { final_summary(AccumAll(EmptyMap, <<JObj([a |-> Stat("float", JNum(Rat(1, 8), "f64"))])>>)),
      final_summary(AccumAll(EmptyMap, <<JObj([a |-> Stat("int", JInt(1))]),
                                         JObj([a |-> Stat("int", JInt(2))])>>)),
      final_summary(AccumAll(EmptyMap, <<JObj([a |-> Stat("str", JStr(<<"x">>))])>>)),
      JObj([a |-> JObj([type |-> JStr("str_agg"), counts |-> JObj(<<"x">> :> JInt(1))]),
            b |-> JObj([type |-> JStr("foo_agg")])]),
      JObj([a |-> JObj([type |-> JStr("foo_agg")])]),
      JObj([a |-> JObj([counts |-> JObj(<<"x">> :> JInt(1))])]),
      final_summary(AccumAll(EmptyMap, <<JObj([a |-> Stat("date", JStr(Date1))])>>)),
      JObj([a |-> JObj([type |-> JStr("date_agg"), counts |-> JObj(Date2 :> JInt(2)),
                        min |-> JStr(Date2), max |-> JStr(Date2)])]),
      JObj([a |-> JObj([type |-> JStr("date_agg"), counts |-> JObj(Date2 :> JInt(1))])]),
      JArr(<<JInt(7)>>) }

InitSeq == Start /\ stmt \in Aggregates

NextSeq ==
    \/ \E stats \in SeqRows : AccumSfunc(1, stats)
    \/ \E agg \in SeqSummaries : MergeSfunc(1, Some(agg))
    \/ \E w \in Workers : HandOver(w)
    \/ \E w \in Workers :
          \E order \in IterationOrders(DOMAIN EntriesOf(heap, inbox[w])) : Combine(w, order)
    \/ Final

SpecSeq == InitSeq /\ [][NextSeq]_vars

\* jsonb_stats_serial that takes the Box back and drops it once the bytes
\* are written
SerialBorrow_Take(w) ==
    /\ stmt \in Aggregates
    /\ failed = "none"
    /\ phase[w] = "scan"
    /\ LET bytes == jsonb_stats_serial(EntriesOf(heap, wstate[w]))
       IN  /\ wire' = [wire EXCEPT ![w] = Some(bytes)]
           /\ last' = [op |-> "serial", w |-> w, state |-> wstate[w],
                       pre |-> EntriesOf(heap, wstate[w]), bytes |-> bytes,
                       prev |-> IF last.op = "serial" /\ last.w = w THEN Some(last.bytes)
                                ELSE None]
    /\ heap' = IF wstate[w] = NULL THEN heap ELSE Free(heap, wstate[w])
    /\ UNCHANGED <<stmt, phase, wstate, wlog, inbox, lstate, result, failed, ncalls, ref,
                   wf_vars>>

\* jsonb_stats_serial(internal) called on worker w's state while the worker
\* keeps it: the bytes are written out (wire) and the state stays where it
\* is; prev holds the bytes of the call just before, if that was a call on
\* the same state
SerialBorrow(w) ==
    /\ stmt \in Aggregates
    /\ failed = "none"
    /\ phase[w] = "scan"
    /\ LET bytes == jsonb_stats_serial(EntriesOf(heap, wstate[w]))
       IN  /\ wire' = [wire EXCEPT ![w] = Some(bytes)]
           /\ last' = [op |-> "serial", w |-> w, state |-> wstate[w],
                       pre |-> EntriesOf(heap, wstate[w]), bytes |-> bytes,
                       prev |-> IF last.op = "serial" /\ last.w = w THEN Some(last.bytes)
                                ELSE None]
    /\ UNCHANGED <<stmt, heap, phase, wstate, wlog, inbox, lstate, result, failed, ncalls,
                   ref, wf_vars>>

\* SpecSerial: jsonb_stats_agg over rows scanned by worker 1, with
\* jsonb_stats_serial called on the workers' states at any point of the scan
NextSerial ==
    \/ \E stats \in StatsRows : AccumSfunc(1, stats)
    \/ \E w \in Workers : SerialBorrow(w)
    \/ \E w \in Workers : HandOver(w)
    \/ \E w \in Workers :
          \E order \in IterationOrders(DOMAIN EntriesOf(heap, inbox[w])) : Combine(w, order)
    \/ Final

SpecSerial == InitAgg /\ [][NextSerial]_vars

(***************************************************************************)
(* stat.rs: the convenience aggregate jsonb_stats_agg(text, jsonb), whose   *)
(* state is a jsonb document that starts as '{}'.                          *)
(***************************************************************************)
\* jsonb_stats_sfunc that starts from an empty object at every call
jsonb_stats_sfunc_Fresh(state, code, stat_val) ==
    JObj((code :> stat_val) @@ [type |-> JStr("stats")])

jsonb_stats_sfunc(state, code, stat_val) ==
    LET obj      == IF state.t = "obj" THEN state.o ELSE EmptyMap
        inserted == (code :> stat_val) @@ obj
    IN  JObj(IF "type" \in DOMAIN inserted THEN inserted
             ELSE ("type" :> JStr("stats")) @@ inserted)

\* one row (code, stat_val) of the aggregate; result holds the state the
\* call returns, and None stands for the initial condition '{}'
StatsSfunc(code, stat_val) ==
    /\ stmt = "jsonb_stats_agg(text, jsonb)"
    /\ ncalls < MaxCalls
    /\ LET state == IF result = None THEN JObj(EmptyMap) ELSE result[1]
           out   == jsonb_stats_sfunc(state, code, stat_val)
       IN  /\ result' = Some(out)
           /\ last' = [op |-> "jsonb_stats_sfunc", state |-> state, code |-> code,
                       stat_val |-> stat_val, out |-> out]
    /\ wlog' = [wlog EXCEPT ![1] = Append(@, <<code, stat_val>>)]
    /\ ncalls' = ncalls + 1
    /\ UNCHANGED <<stmt, heap, phase, wstate, wire, inbox, lstate, failed, ref, wf_vars>>

\* SpecStats: the statement is SELECT jsonb_stats_agg(code, stat(val)) FROM ...
InitStats == Start /\ stmt = "jsonb_stats_agg(text, jsonb)"

NextStats ==
    \E code \in {"a", "b", "type"} :
        \E stat_val \in {Stat("int", JInt(1)), Stat("int", JInt(2)), Stat("str", JStr(<<"x">>))} :
            StatsSfunc(code, stat_val)

SpecStats == InitStats /\ [][NextStats]_vars

(***************************************************************************)
(* Properties of the aggregate protocol.                                   *)
(***************************************************************************)
\* C2: parallel execution is equivalent to sequential execution.  For a
\* jsonb_stats_agg statement -- the rows split among the workers in any
\* way, their sfunc calls interleaved in any way, the partial states shipped
\* through serial and deserial or handed over, and combined in any order --
\* the outcome is the outcome of one state accumulating all the rows in
\* arrival order: when the final function returns a summary, that state
\* raised no error, the state finalized equals it in every field (keys,
\* variants, counts maps, arr row counts, date min/max, numeric
\* count/sum/min/max/mean/sum_sq_diff) and the summary is the summary of
\* that state; and when the statement raises an error, accumulating the
\* rows in that one state raises an error too.
ParallelEqualsSequential ==
    stmt = "jsonb_stats_agg" =>
        /\ result # None =>
              /\ last.op = "final"
              /\ ref.err = "none"
              /\ last.pre = ref.entries
              /\ result[1] = final_summary(ref.entries)
        /\ failed # "none" => ref.err # "none"

\* the entries after accumulating the rows in order, or the first error
RECURSIVE AccumSeq(_, _)
AccumSeq(entries, rows) ==
    IF rows = <<>> THEN [err |-> "none", entries |-> entries]
    ELSE LET r == accum_sfunc_entries(entries, Head(rows))
         IN  IF r.err # "none" THEN r ELSE AccumSeq(r.entries, Tail(rows))

\* the type tags the rows give field k
DeclaredTypes(rows, k) ==
    {get_type(rows[i].o[k].o) :
        i \in {j \in DOMAIN rows : rows[j].t = "obj" /\ k \in DOMAIN rows[j].o
                                     /\ rows[j].o[k].t = "obj"}}

\* the fields that every row having them declares str, bool or arr
CategoryFields(rows) ==
    {k \in {"a", "b"} :
        /\ DeclaredTypes(rows, k) # {}
        /\ DeclaredTypes(rows, k) \subseteq {"str", "bool", "arr"}}

\* C3: counts commutativity.  For every worker that still owns its state,
\* the counts map (and for arr the row count) the state holds for a str,
\* bool or arr field after accumulating the worker's rows is the one held
\* after accumulating any permutation of the same rows.
CountsCommutativity ==
    (stmt = "jsonb_stats_agg" /\ failed = "none") =>
        \A w \in {v \in Workers : phase[v] \in {"scan", "sent"}} :
            \A perm \in IterationOrders(DOMAIN wlog[w]) :
                LET rows == [i \in DOMAIN wlog[w] |-> wlog[w][perm[i]]]
                    s    == AccumSeq(EmptyMap, rows)
                    held == EntriesOf(heap, wstate[w])
                IN  s.err = "none" =>
                        \A k \in CategoryFields(wlog[w]) :
                            /\ k \in DOMAIN s.entries
                            /\ s.entries[k].counts = held[k].counts
                            /\ (s.entries[k].variant = "ArrAgg") <=> (held[k].variant = "ArrAgg")
                            /\ s.entries[k].variant = "ArrAgg" =>
                                  s.entries[k].count = held[k].count

\* the fields of a summary document whose type is none of the eight aggregate tags
UnknownAggFields(agg) ==
    IF agg = None \/ agg[1].t # "obj" THEN {}
    ELSE {f \in DOMAIN agg[1].o \ {"type"} :
            /\ agg[1].o[f].t = "obj"
            /\ get_type(agg[1].o[f].o) \notin
                  {"int_agg", "float_agg", "dec2_agg", "nat_agg",
                   "str_agg", "bool_agg", "arr_agg", "date_agg"}}

\* the fields of a summary document that carry an aggregate tag, parsed
IncomingEntries(agg) ==
    IF agg = None \/ agg[1].t # "obj" THEN EmptyMap
    ELSE [k \in {f \in DOMAIN agg[1].o \ {"type"} : agg[1].o[f].t = "obj"}
                    \ UnknownAggFields(agg)
            |-> parse_agg_entry(agg[1].o[k].o).entry]

\* the keys both states have an entry for, with different type tags
TagClash(entries1, entries2) ==
    {k \in DOMAIN entries1 \cap DOMAIN entries2 :
        type_tag(entries1[k]) # type_tag(entries2[k])}

\* the keys both documents have a summary object for, with different types
JsonTagClash(a, b) ==
    IF a.t # "obj" \/ b.t # "obj" THEN {}
    ELSE {k \in (DOMAIN a.o \cap DOMAIN b.o) \ {"type"} :
            /\ a.o[k].t = "obj"
            /\ b.o[k].t = "obj"
            /\ get_type(a.o[k].o) # get_type(b.o[k].o)}

\* C4: merging two entries for the same key succeeds only if their type
\* tags are identical, and fails with TypeMismatch when they differ.  A call
\* of jsonb_stats_merge_sfunc, jsonb_stats_combine or jsonb_stats_merge that
\* returns has met no key with two different tags; a call that meets one
\* raises TypeMismatch (unless a field of the same document carries a type
\* tag that is no aggregate type at all, which raises UnknownAggType before
\* any entry is made of it); and TypeMismatch is raised for no other reason.
TypeMismatchIffTagsDiffer ==
    /\ last.op = "merge_sfunc" =>
          LET clash == TagClash(last.pre, IncomingEntries(last.arg))
          IN  /\ last.err = "none" => clash = {}
              /\ last.err = "TypeMismatch" => clash # {}
              /\ clash # {} =>
                    \/ last.err = "TypeMismatch"
                    \/ last.err = "UnknownAggType" /\ UnknownAggFields(last.arg) # {}
    /\ last.op = "combine" =>
          (last.err = "TypeMismatch" <=> TagClash(last.pre1, last.pre2) # {})
    /\ last.op = "combine" => last.err \in {"none", "TypeMismatch"}
    /\ last.op = "jsonb_stats_merge" =>
          LET clash == JsonTagClash(last.a, last.b)
          IN  /\ last.err = "none" => clash = {}
              /\ last.err = "TypeMismatch" => clash # {}
              /\ clash # {} => last.err \in {"TypeMismatch", "UnknownAggType"}

\* a combine of two partial states of jsonb_stats_merge_agg, both built by
\* the sfunc from summaries, that hold field a under different tags
TypeMismatchWitness ==
    /\ stmt = "jsonb_stats_merge_agg"
    /\ last.op = "combine"
    /\ last.err = "TypeMismatch"
    /\ "a" \in TagClash(last.pre1, last.pre2)
    /\ "b" \in DOMAIN last.pre1 \cap DOMAIN last.pre2
    /\ failed = "TypeMismatch"

\* C5: state lifecycle.  No StatsState allocation is ever freed twice, and
\* once the final function has returned the statement's summary every
\* allocation made by an sfunc, by jsonb_stats_deserial or by a combine of
\* two NULL states has been freed exactly once.
EveryStateFreedOnce ==
    /\ \A p \in DOMAIN heap : heap[p].frees <= 1
    /\ result # None => \A p \in DOMAIN heap : heap[p].frees = 1

\* C6: jsonb_stats_combine consumes its right-hand state.  After a call
\* that returns, of the states passed in and the state returned exactly the
\* returned one is live: a right-hand state that is not the one returned
\* has been freed, once.
CombineConsumesRight ==
    (last.op = "combine" /\ last.err = "none") =>
        /\ last.ret # NULL
        /\ {p \in {last.state1, last.state2, last.ret} \ {NULL} : heap[p].frees = 0}
              = {last.ret}
        /\ (last.state2 # NULL /\ last.state2 # last.ret) => heap[last.state2].frees = 1

\* a combine of two non-NULL states, the right-hand one made by deserial
CombineWitness ==
    /\ last.op = "combine"
    /\ last.err = "none"
    /\ last.state1 # NULL
    /\ last.state2 = <<"deserial", 2>>
    /\ last.pre2 # EmptyMap
    /\ last.ret = last.state1

\* C7: serialization round trip.  For every live StatsState,
\* jsonb_stats_deserial(jsonb_stats_serial(s)) succeeds and gives a state
\* equal to s in every field.
SerializationRoundTrip ==
    \A p \in DOMAIN heap :
        heap[p].frees = 0 =>
            LET r == jsonb_stats_deserial(jsonb_stats_serial(heap[p].entries))
            IN  r.err = "none" /\ r.entries = heap[p].entries

\* the stat type tags of init_entry
KnownStatTypes == {"int", "float", "dec2", "nat", "str", "bool", "arr", "date"}

\* rows that give every field one type tag, a known one
WellTyped(rows) ==
    \A k \in {"a", "b"} :
        /\ Cardinality(DeclaredTypes(rows, k)) <= 1
        /\ DeclaredTypes(rows, k) \subseteq KnownStatTypes

\* C8: round trip through JSON.  For every state a worker has accumulated
\* from rows that give each field one known type, parsing the children of
\* its summary back with parse_agg_entry (jsonb_stats_merge_sfunc on an
\* empty state) and finalizing again gives the same summary, field for
\* field and digit for digit.
FinalizeRoundTrip ==
    \A w \in Workers :
        (/\ stmt = "jsonb_stats_agg"
         /\ failed = "none"
         /\ phase[w] \in {"scan", "sent"}
         /\ wstate[w] # NULL
         /\ WellTyped(wlog[w])) =>
            LET first == final_summary(heap[wstate[w]].entries)
                back  == merge_sfunc_entries(EmptyMap, Some(first))
            IN  /\ back.err = "none"
                /\ final_summary(back.entries) = first

\* a summary document with no field keys
NoFieldKeys(agg) == agg # None /\ agg[1].t = "obj" /\ DOMAIN agg[1].o \subseteq {"type"}

\* C9: merge identity.  jsonb_stats_combine with an empty state (or NULL)
\* on either side returns a state with the entries of the other side
\* unchanged, and jsonb_stats_merge_sfunc given a summary with no field keys
\* leaves the entries of the state unchanged.
MergeIdentity ==
    /\ (last.op = "combine" /\ last.pre2 = EmptyMap) =>
          last.err = "none" /\ EntriesOf(heap, last.ret) = last.pre1
    /\ (last.op = "combine" /\ last.pre1 = EmptyMap) =>
          last.err = "none" /\ EntriesOf(heap, last.ret) = last.pre2
    /\ (last.op = "merge_sfunc" /\ NoFieldKeys(last.arg)) =>
          last.err = "none" /\ heap[last.ret].entries = last.pre

\* a combine of an allocated empty state on the left with a state of two
\* fields on the right
MergeIdentityWitness ==
    /\ last.op = "combine"
    /\ last.state1 # NULL
    /\ last.state2 # NULL
    /\ last.pre1 = EmptyMap
    /\ DOMAIN last.pre2 = {"a", "b"}
    /\ heap[last.ret].entries = last.pre2

\* the fields of a stats row whose stat object carries an unknown type tag
UnknownStatFields(stats) ==
    IF stats.t # "obj" THEN {}
    ELSE {k \in DOMAIN stats.o \ {"type"} :
            /\ stats.o[k].t = "obj"
            /\ Get(stats.o[k].o, "type").t = "str"
            /\ get_type(stats.o[k].o) \notin KnownStatTypes}

\* C10: accumulating a stats row in which a field's stat object carries a
\* type tag outside int, float, dec2, nat, str, bool, arr, date raises
\* UnknownStatType, whether the field is new to the state or has an entry.
UnknownStatTypeRaised ==
    (last.op = "accum_sfunc" /\ UnknownStatFields(last.arg) # {}) =>
        last.err = "UnknownStatType"

\* the fields of a stats row whose stat object declares one of these types
FieldsOfType(stats, types) ==
    IF stats.t # "obj" THEN {}
    ELSE {k \in DOMAIN stats.o \ {"type"} :
            /\ stats.o[k].t = "obj"
            /\ Get(stats.o[k].o, "type").t = "str"
            /\ get_type(stats.o[k].o) \in types}

\* the aggregate tag init_entry gives a stat type
AggTagOf(stat_type) ==
    CASE stat_type = "int"   -> "int_agg"
      [] stat_type = "float" -> "float_agg"
      [] stat_type = "dec2"  -> "dec2_agg"
      [] stat_type = "nat"   -> "nat_agg"
      [] stat_type = "str"   -> "str_agg"
      [] stat_type = "bool"  -> "bool_agg"
      [] stat_type = "arr"   -> "arr_agg"
      [] stat_type = "date"  -> "date_agg"
      [] OTHER               -> "none"

\* the state the last jsonb_stats_accum_sfunc call worked on left field k
\* as the call found it
FieldUntouched(k) ==
    LET now == heap[<<"sfunc", last.w>>].entries
    IN  IF k \in DOMAIN last.pre THEN k \in DOMAIN now /\ now[k] = last.pre[k]
        ELSE k \notin DOMAIN now

\* C11: accumulating a stat of type nat with a negative value raises
\* InvalidValue, when the key is new and when the key already has an entry,
\* and the negative value is never folded into the state.
NegativeNatRejected ==
    last.op = "accum_sfunc" =>
        \A k \in FieldsOfType(last.arg, {"nat"}) :
            FLt(get_f64(last.arg.o[k].o, "value"), FInt(0)) =>
                last.err = "InvalidValue" /\ FieldUntouched(k)

\* C12: accumulating a stat of type str or bool whose value is missing or
\* is not a string, boolean or number raises InvalidValue, on the first row
\* for the key and on every later row; stated for rows that give the field
\* one type throughout.
ValueRequired ==
    (last.op = "accum_sfunc" /\ WellTyped(wlog[last.w])) =>
        \A k \in FieldsOfType(last.arg, {"str", "bool"}) :
            Get(last.arg.o[k].o, "value").t \notin {"str", "bool", "num"} =>
                last.err = "InvalidValue"

\* C13: accumulating a stat of type date whose value is not a JSON string
\* raises InvalidValue, on the first row for the key and on every later
\* row; stated for rows that give the field one type throughout.
DateStringRequired ==
    (last.op = "accum_sfunc" /\ WellTyped(wlog[last.w])) =>
        \A k \in FieldsOfType(last.arg, {"date"}) :
            Get(last.arg.o[k].o, "value").t # "str" => last.err = "InvalidValue"

\* C14: type mismatches across rows are errors.  Accumulating a stat of
\* type T into a key whose entry has a tag other than T_agg raises an error
\* and leaves the entry as it was.
AccumTypeMismatchRaised ==
    last.op = "accum_sfunc" =>
        \A k \in FieldsOfType(last.arg, KnownStatTypes) :
            (/\ k \in DOMAIN last.pre
             /\ type_tag(last.pre[k]) # AggTagOf(get_type(last.arg.o[k].o))) =>
                last.err # "none" /\ FieldUntouched(k)

\* C15 as stated: jsonb_stats_merge_sfunc rejects with UnknownAggType every
\* input summary that contains a field object whose type is not one of the
\* eight aggregate tags, whether or not the key exists in the state, and
\* stores no entry for it.
UnknownAggTypeRejected ==
    (last.op = "merge_sfunc" /\ UnknownAggFields(last.arg) # {}) =>
        /\ last.err = "UnknownAggType"
        /\ \A k \in UnknownAggFields(last.arg) : FieldUntouched(k)

\* C15 amended: such a summary is always rejected and no entry is stored
\* for the field of unknown type; the error is UnknownAggType unless a
\* field iterated before every field of unknown type clashes with the tag
\* of the existing entry, which raises TypeMismatch first.
UnknownAggTypeOrEarlierMismatch ==
    (last.op = "merge_sfunc" /\ UnknownAggFields(last.arg) # {}) =>
        LET pos(k) == CHOOSE i \in 1..Len(KeyOrder) : KeyOrder[i] = k
            clash  == TagClash(last.pre, IncomingEntries(last.arg))
        IN  /\ \A k \in UnknownAggFields(last.arg) : FieldUntouched(k)
            /\ \/ last.err = "UnknownAggType"
                  /\ \A c \in clash : \E k \in UnknownAggFields(last.arg) : pos(k) < pos(c)
               \/ last.err = "TypeMismatch"
                  /\ \E c \in clash : \A k \in UnknownAggFields(last.arg) : pos(c) < pos(k)

\* a summary whose field a has an unknown type, merged into a state that
\* already holds an entry for a
UnknownAggTypeWitness ==
    /\ last.op = "merge_sfunc"
    /\ "a" \in UnknownAggFields(last.arg)
    /\ "a" \in DOMAIN last.pre
    /\ last.err = "UnknownAggType"
    /\ failed = "UnknownAggType"

\* C16: numeric entry invariant.  In every StatsState reached by accumulate,
\* merge-from-JSON and combine operations, every numeric entry has
\* count >= 1, min <= mean <= max and sum_sq_diff >= 0.
NumericEntryInvariant ==
    \A p \in DOMAIN heap :
        \A k \in DOMAIN heap[p].entries :
            LET e == heap[p].entries[k]
            IN  e.variant \in NumVariants =>
                    /\ e.f.count >= 1
                    /\ FLe(e.f.min, e.f.mean)
                    /\ FLe(e.f.mean, e.f.max)
                    /\ FLe(FInt(0), e.f.sum_sq_diff)

\* the stat of field a in a one-row statement whose row gives a a numeric
\* stat with a numeric value, finalized
SingleNumericRow ==
    /\ stmt = "jsonb_stats_agg"
    /\ result # None
    /\ Len(wlog[1]) = 1
    /\ wlog[2] = <<>>
    /\ "a" \in FieldsOfType(wlog[1][1], {"int", "float", "dec2", "nat"})
    /\ Get(wlog[1][1].o.a.o, "value").t = "num"

\* C17 as stated: after exactly one numeric stat with value v has been
\* accumulated for a key and the state is finalized, the entry has
\* count = 1, sum = min = max = mean = v, sum_sq_diff = 0, and variance,
\* stddev and coefficient_of_variation_pct are null.
SingleRowResult ==
    SingleNumericRow =>
        LET v == wlog[1][1].o.a.o.value.q
            e == result[1].o.a.o
        IN  /\ e.count = JInt(1)
            /\ \A f \in {"sum", "min", "max", "mean"} : e[f].t = "num" /\ e[f].q = v
            /\ e.sum_sq_diff.t = "num" /\ e.sum_sq_diff.q = FInt(0)
            /\ \A f \in {"variance", "stddev", "coefficient_of_variation_pct"} : e[f] = JNull

\* C17 amended: the same, except that mean is v rounded to two decimals.
SingleRowResultRounded ==
    SingleNumericRow =>
        LET v == wlog[1][1].o.a.o.value.q
            e == result[1].o.a.o
        IN  /\ e.count = JInt(1)
            /\ \A f \in {"sum", "min", "max"} : e[f].t = "num" /\ e[f].q = v
            /\ e.mean.t = "num" /\ e.mean.fmt = "2dp"
            /\ FLe(Rat(-1, 200), FSub(e.mean.q, v)) /\ FLe(FSub(e.mean.q, v), Rat(1, 200))
            /\ e.sum_sq_diff.t = "num" /\ e.sum_sq_diff.q = FInt(0)
            /\ \A f \in {"variance", "stddev", "coefficient_of_variation_pct"} : e[f] = JNull

\* the summary of the single row float 0.125, whose mean is emitted as 0.12
SingleRowWitness ==
    /\ SingleNumericRow
    /\ wlog[1][1].o.a.o.value.q = Rat(1, 8)
    /\ result[1].o.a.o.type = JStr("float_agg")
    /\ result[1].o.a.o.mean.q = Rat(3, 25)
    /\ result[1].o.a.o.sum.q = Rat(1, 8)

\* C18: at finalization, for every numeric entry of the state: when
\* count > 1, variance is sum_sq_diff / (count - 1), stddev is the square
\* root of that variance, and coefficient_of_variation_pct is
\* stddev / mean * 100, each emitted to the nearest hundredth;
\* coefficient_of_variation_pct is null when mean = 0; when count <= 1 all
\* three are null.  The square root is checked by its square: k hundredths
\* is sqrt(x) * scale to the nearest unit iff
\* (2k - 1) / (2 scale) <= sqrt(x) <= (2k + 1) / (2 scale).
DerivedStatistics ==
    (last.op = "final" /\ result # None) =>
        \A key \in DOMAIN last.pre :
            last.pre[key].variant \in NumVariants =>
                LET RECURSIVE Limbs(_)
                    \* a natural number as base-1000 digits, lowest first
                    Limbs(n) == IF n < 1000 THEN <<n>> ELSE <<n % 1000>> \o Limbs(n \div 1000)
                    RECURSIVE Carry(_, _)
                    Carry(l, c) ==
                        IF l = <<>> THEN (IF c = 0 THEN <<>> ELSE Limbs(c))
                        ELSE <<(Head(l) + c) % 1000>> \o Carry(Tail(l), (Head(l) + c) \div 1000)
                    RECURSIVE Dot(_, _, _, _)
                    \* the sum of a[j] * b[i - j + 1] over j <= n
                    Dot(a, b, i, n) ==
                        IF n = 0 THEN 0
                        ELSE Dot(a, b, i, n - 1)
                             + (IF i - n + 1 \in 1..Len(b) THEN a[n] * b[i - n + 1] ELSE 0)
                    Mul(a, b) == Carry([i \in 1..(Len(a) + Len(b) - 1) |-> Dot(a, b, i, Len(a))], 0)
                    Digit(l, i) == IF i <= Len(l) THEN l[i] ELSE 0
                    RECURSIVE LeFrom(_, _, _)
                    \* a <= b, comparing the digits from position i downwards
                    LeFrom(a, b, i) ==
                        IF i = 0 THEN TRUE
                        ELSE IF Digit(a, i) # Digit(b, i) THEN Digit(a, i) < Digit(b, i)
                        ELSE LeFrom(a, b, i - 1)
                    BigLe(a, b) == LeFrom(a, b, IF Len(a) > Len(b) THEN Len(a) ELSE Len(b))
                    \* (m / (2 scale))^2 <= x and x <= (m / (2 scale))^2
                    SqLe(m, scale, x) ==
                        BigLe(Mul(Mul(Limbs(m), Limbs(m)), Limbs(x[2])),
                              Mul(Limbs(4 * scale * scale), Limbs(x[1])))
                    SqGe(m, scale, x) ==
                        BigLe(Mul(Limbs(4 * scale * scale), Limbs(x[1])),
                              Mul(Mul(Limbs(m), Limbs(m)), Limbs(x[2])))
                    SqrtWithin(k, scale, x) ==
                        /\ k >= 0
                        /\ k = 0 \/ SqLe(2 * k - 1, scale, x)
                        /\ SqGe(2 * k + 1, scale, x)
                    Hundredths(j) == j.q[1] * (100 \div j.q[2])
                    f == last.pre[key].f
                    e == result[1].o[key].o
                    var == FDiv(f.sum_sq_diff, FInt(f.count - 1))
                IN  IF f.count <= 1
                    THEN /\ e.variance = JNull
                         /\ e.stddev = JNull
                         /\ e.coefficient_of_variation_pct = JNull
                    ELSE /\ e.variance.t = "num"
                         /\ FLe(Rat(-1, 200), FSub(e.variance.q, var))
                         /\ FLe(FSub(e.variance.q, var), Rat(1, 200))
                         /\ e.stddev.t = "num"
                         /\ SqrtWithin(Hundredths(e.stddev), 100, var)
                         /\ IF f.mean = FInt(0)
                            THEN e.coefficient_of_variation_pct = JNull
                            ELSE /\ e.coefficient_of_variation_pct.t = "num"
                                 /\ Sign(e.coefficient_of_variation_pct.q[1]) \in {0, Sign(f.mean[1])}
                                 /\ SqrtWithin(Abs(Hundredths(e.coefficient_of_variation_pct)), 10000,
                                               FDiv(var, FMul(f.mean, f.mean)))

\* a finalized numeric entry of more than one value with a nonzero mean,
\* and one with mean zero
DerivedStatisticsWitness ==
    /\ last.op = "final" /\ result # None
    /\ "a" \in DOMAIN last.pre
    /\ last.pre.a.variant \in NumVariants
    /\ last.pre.a.f.count > 1
    /\ last.pre.a.f.mean # FInt(0)
    /\ last.pre.a.f.sum_sq_diff # FInt(0)
    /\ result[1].o.a.o.stddev.t = "num"
    /\ result[1].o.a.o.coefficient_of_variation_pct.t = "num"

\* C19: every rounded numeric field the finalizer emits for a numeric entry
\* (mean, sum_sq_diff, and variance, stddev and
\* coefficient_of_variation_pct when not null) is a JSON number whose text
\* is an optional minus sign, one or more digits, a point and exactly two
\* digits.
RoundedFieldsTwoDecimals ==
    (last.op = "final" /\ result # None) =>
        \A key \in DOMAIN last.pre :
            last.pre[key].variant \in NumVariants =>
                LET e == result[1].o[key].o
                    IsDigit(c) == \E i \in 1..10 : Digits[i] = c
                    TwoDecimals(text) ==
                        LET n == Len(text)
                            first == IF text[1] = "-" THEN 2 ELSE 1
                        IN  /\ n - 3 >= first
                            /\ text[n - 2] = "."
                            /\ \A i \in (first..n) \ {n - 2} : IsDigit(text[i])
                IN  /\ e.mean # JNull /\ e.sum_sq_diff # JNull
                    /\ \A f \in {"mean", "sum_sq_diff", "variance", "stddev",
                                 "coefficient_of_variation_pct"} :
                           e[f] # JNull => e[f].t = "num" /\ TwoDecimals(NumberToString(e[f]))

\* a finalized numeric entry of several values whose mean is the whole
\* number 2, emitted as 2.00
RoundedFieldsWitness ==
    /\ last.op = "final" /\ result # None
    /\ "a" \in DOMAIN last.pre
    /\ last.pre.a.variant \in NumVariants
    /\ last.pre.a.f.count > 1
    /\ last.pre.a.f.mean = FInt(2)
    /\ NumberToString(result[1].o.a.o.mean) = <<"2", ".", "0", "0">>
    /\ result[1].o.a.o.stddev # JNull
    /\ result[1].o.a.o.coefficient_of_variation_pct # JNull

\* C20: when every row a worker has accumulated carries, for key k, a
\* numeric stat of one and the same type T with a numeric value, the entry
\* for k has count = the number of rows, sum = the sum of the values,
\* min = the smallest and max = the largest value, and the tag T_agg.
NumericAccumulation ==
    (stmt = "jsonb_stats_agg" /\ failed = "none" /\ phase[1] = "scan" /\ wlog[1] # <<>>) =>
        \A T \in {"int", "float", "dec2", "nat"} :
            \A k \in FieldsOfType(wlog[1][1], {T}) :
                (\A i \in 1..Len(wlog[1]) :
                    /\ k \in FieldsOfType(wlog[1][i], {T})
                    /\ Get(wlog[1][i].o[k].o, "value").t = "num") =>
                    LET n == Len(wlog[1])
                        val(i) == wlog[1][i].o[k].o.value.q
                        RECURSIVE SumTo(_)
                        SumTo(i) == IF i = 0 THEN FInt(0) ELSE FAdd(SumTo(i - 1), val(i))
                        entries == heap[wstate[1]].entries
                    IN  /\ k \in DOMAIN entries
                        /\ type_tag(entries[k]) = AggTagOf(T)
                        /\ entries[k].f.count = n
                        /\ entries[k].f.sum = SumTo(n)
                        /\ \E i \in 1..n : entries[k].f.min = val(i)
                        /\ \A i \in 1..n : FLe(entries[k].f.min, val(i))
                        /\ \E i \in 1..n : entries[k].f.max = val(i)
                        /\ \A i \in 1..n : FLe(val(i), entries[k].f.max)

\* three int rows 2, -1, 1 accumulated in this order: count 3, sum 2,
\* min -1, max 2
NumericAccumulationWitness ==
    /\ stmt = "jsonb_stats_agg" /\ failed = "none" /\ phase[1] = "scan"
    /\ Len(wlog[1]) = 3
    /\ \A i \in 1..3 : "a" \in FieldsOfType(wlog[1][i], {"int"})
    /\ wlog[1][1].o.a.o.value.q = FInt(2)
    /\ wlog[1][2].o.a.o.value.q = FInt(-1)
    /\ wlog[1][3].o.a.o.value.q = FInt(1)
    /\ heap[wstate[1]].entries.a.variant = "IntAgg"
    /\ heap[wstate[1]].entries.a.f.count = 3
    /\ heap[wstate[1]].entries.a.f.sum = FInt(2)
    /\ heap[wstate[1]].entries.a.f.min = FInt(-1)
    /\ heap[wstate[1]].entries.a.f.max = FInt(2)

\* the pairs of entries the last call merged natively, each with its key,
\* the existing entry a, the incoming entry b and the entry stored: the
\* keys a summary merged by jsonb_stats_merge_sfunc shares with the state,
\* or the keys two partial states combined by jsonb_stats_combine share
MergeCases ==
    IF last.op = "merge_sfunc" /\ last.err = "none"
    THEN {[key |-> k, a |-> last.pre[k], b |-> IncomingEntries(last.arg)[k],
           out |-> heap[last.ret].entries[k]] :
              k \in DOMAIN last.pre \cap DOMAIN IncomingEntries(last.arg)}
    ELSE IF last.op = "combine" /\ last.err = "none"
            /\ last.state1 # NULL /\ last.state2 # NULL
    THEN {[key |-> k, a |-> last.pre1[k], b |-> last.pre2[k],
           out |-> heap[last.ret].entries[k]] :
              k \in DOMAIN last.pre1 \cap DOMAIN last.pre2}
    ELSE {}

\* C21: merging two numeric entries with the same tag keeps the tag and
\* gives count = n_a + n_b, sum = sum_a + sum_b, min = the smaller min,
\* max = the larger max, and, the counts not both being 0,
\* mean = mean_a + (mean_b - mean_a) * n_b / (n_a + n_b) and
\* sum_sq_diff = ssd_a + ssd_b + (mean_b - mean_a)^2 * n_a * n_b / (n_a + n_b);
\* the two quotients are checked multiplied out.  The same holds of the
\* summary jsonb_stats_merge builds from two numeric summaries.
NumericMerge ==
    LET Holds(tag_a, tag_out, a, b, out) ==
            LET n == FInt(a.count + b.count)
                d == FSub(b.mean, a.mean)
            IN  /\ tag_out = tag_a
                /\ out.count = a.count + b.count
                /\ out.sum = FAdd(a.sum, b.sum)
                /\ out.min \in {a.min, b.min} /\ FLe(out.min, a.min) /\ FLe(out.min, b.min)
                /\ out.max \in {a.max, b.max} /\ FLe(a.max, out.max) /\ FLe(b.max, out.max)
                /\ (a.count + b.count > 0 /\ IsFinite(a.mean) /\ IsFinite(b.mean)) =>
                      /\ FMul(out.mean, n)
                            = FAdd(FMul(a.mean, FInt(a.count)), FMul(b.mean, FInt(b.count)))
                      /\ FMul(FSub(out.sum_sq_diff, FAdd(a.sum_sq_diff, b.sum_sq_diff)), n)
                            = FMul(FMul(d, d), FInt(a.count * b.count))
        Fields(obj) == [count |-> F64AsI64(get_f64(obj, "count")), sum |-> get_f64(obj, "sum"),
                        min |-> get_f64(obj, "min"), max |-> get_f64(obj, "max"),
                        mean |-> get_f64(obj, "mean"),
                        sum_sq_diff |-> get_f64(obj, "sum_sq_diff")]
        NumTags == {"int_agg", "float_agg", "dec2_agg", "nat_agg"}
    IN  /\ \A c \in MergeCases :
              (c.a.variant \in NumVariants /\ c.a.variant = c.b.variant) =>
                  /\ c.out.variant \in NumVariants
                  /\ Holds(type_tag(c.a), type_tag(c.out), c.a.f, c.b.f, c.out.f)
        /\ (last.op = "jsonb_stats_merge" /\ last.err = "none"
            /\ last.a.t = "obj" /\ last.b.t = "obj") =>
              \A k \in (DOMAIN last.a.o \cap DOMAIN last.b.o) \ {"type"} :
                  (/\ last.a.o[k].t = "obj" /\ last.b.o[k].t = "obj"
                   /\ get_type(last.a.o[k].o) \in NumTags
                   /\ get_type(last.b.o[k].o) = get_type(last.a.o[k].o)) =>
                      /\ last.out.o[k].t = "obj"
                      /\ Holds(get_type(last.a.o[k].o), get_type(last.out.o[k].o),
                               Fields(last.a.o[k].o), Fields(last.b.o[k].o),
                               Fields(last.out.o[k].o))

\* two int_agg entries of different means merged natively: the cross term
\* of sum_sq_diff is not zero
NumericMergeWitness ==
    \E c \in MergeCases :
        /\ c.a.variant = "IntAgg" /\ c.b.variant = "IntAgg"
        /\ c.a.f.count > 0 /\ c.b.f.count > 0
        /\ c.a.f.mean # c.b.f.mean
        /\ c.out.f.count = c.a.f.count + c.b.f.count
        /\ c.out.f.sum_sq_diff # FAdd(c.a.f.sum_sq_diff, c.b.f.sum_sq_diff)

\* C22: when every row a worker has accumulated carries a date stat with a
\* string value for key k, the entry for k is a date_agg whose min_date is
\* the lexicographically smallest and max_date the largest of the strings,
\* and whose counts[d] is the number of rows with value d.
DateAccumulation ==
    \A w \in Workers :
        (stmt = "jsonb_stats_agg" /\ failed = "none" /\ phase[w] = "scan" /\ wlog[w] # <<>>) =>
            \A k \in FieldsOfType(wlog[w][1], {"date"}) :
                (\A i \in 1..Len(wlog[w]) :
                    /\ k \in FieldsOfType(wlog[w][i], {"date"})
                    /\ Get(wlog[w][i].o[k].o, "value").t = "str") =>
                    LET n == Len(wlog[w])
                        val(i) == wlog[w][i].o[k].o.value.s
                        entries == heap[wstate[w]].entries
                    IN  /\ k \in DOMAIN entries
                        /\ entries[k].variant = "DateAgg"
                        /\ entries[k].min_date # None
                        /\ \E i \in 1..n : entries[k].min_date[1] = val(i)
                        /\ \A i \in 1..n : ~StrLt(val(i), entries[k].min_date[1])
                        /\ entries[k].max_date # None
                        /\ \E i \in 1..n : entries[k].max_date[1] = val(i)
                        /\ \A i \in 1..n : ~StrLt(entries[k].max_date[1], val(i))
                        /\ DOMAIN entries[k].counts = {val(i) : i \in 1..n}
                        /\ \A d \in DOMAIN entries[k].counts :
                              entries[k].counts[d] = Cardinality({i \in 1..n : val(i) = d})

\* the dates 2024-01-02, 2023-12-31, 2024-01-02 accumulated in this order:
\* the minimum is the second, the maximum the first, which is counted twice
DateAccumulationWitness ==
    \E w \in Workers :
        /\ stmt = "jsonb_stats_agg" /\ failed = "none" /\ phase[w] = "scan"
        /\ Len(wlog[w]) = 3
        /\ \A i \in 1..3 : "b" \in FieldsOfType(wlog[w][i], {"date"})
        /\ wlog[w][1].o.b.o.value = JStr(Date1)
        /\ wlog[w][2].o.b.o.value = JStr(Date2)
        /\ wlog[w][3].o.b.o.value = JStr(Date1)
        /\ heap[wstate[w]].entries.b = DateAgg((Date1 :> 2) @@ (Date2 :> 1), Some(Date2), Some(Date1))

\* C23: an arr_agg entry keeps two scales.  When every row a worker has
\* accumulated carries an arr stat for key k, count is the number of rows
\* and counts[e] the number of occurrences of e over the elements of all
\* rows; when two arr_agg entries are merged, count is the sum of the two
\* counts and counts[e] the sum of the two counts[e], an absent e being 0.
ArrCountScales ==
    LET At(counts, e) == IF e \in DOMAIN counts THEN counts[e] ELSE 0
    IN  /\ \A w \in Workers :
              (stmt = "jsonb_stats_agg" /\ failed = "none" /\ phase[w] = "scan"
               /\ wlog[w] # <<>>) =>
                  \A k \in FieldsOfType(wlog[w][1], {"arr"}) :
                      (\A i \in 1..Len(wlog[w]) : k \in FieldsOfType(wlog[w][i], {"arr"})) =>
                          LET n == Len(wlog[w])
                              \* the elements of row i, tallied
                              row(i) == collect_arr_counts(wlog[w][i].o[k].o, EmptyMap)
                              RECURSIVE Occurrences(_, _)
                              Occurrences(e, i) ==
                                  IF i = 0 THEN 0 ELSE Occurrences(e, i - 1) + At(row(i), e)
                              entry == heap[wstate[w]].entries[k]
                          IN  /\ entry.variant = "ArrAgg"
                              /\ entry.count = n
                              /\ DOMAIN entry.counts = UNION {DOMAIN row(i) : i \in 1..n}
                              /\ \A e \in DOMAIN entry.counts :
                                    entry.counts[e] = Occurrences(e, n)
        /\ \A c \in MergeCases :
              (c.a.variant = "ArrAgg" /\ c.b.variant = "ArrAgg") =>
                  /\ c.out.variant = "ArrAgg"
                  /\ c.out.count = c.a.count + c.b.count
                  /\ DOMAIN c.out.counts = DOMAIN c.a.counts \cup DOMAIN c.b.counts
                  /\ \A e \in DOMAIN c.out.counts :
                        c.out.counts[e] = At(c.a.counts, e) + At(c.b.counts, e)

\* the leader combines a partial state of one arr row {x, y} with one of
\* the two rows ["y", 1, true, null] and {x, y}: 3 rows, y occurs 3 times
ArrCountScalesWitness ==
    \E c \in MergeCases :
        /\ last.op = "combine"
        /\ c.a.variant = "ArrAgg" /\ c.b.variant = "ArrAgg"
        /\ {c.a.count, c.b.count} = {1, 2}
        /\ c.out.count = 3
        /\ {<<"x">>, <<"y">>, <<"1">>} \subseteq DOMAIN c.out.counts
        /\ c.out.counts[<<"y">>] = 3
        /\ c.out.counts[<<"x">>] = 2
        /\ c.out.counts[<<"1">>] = 1

\* C24: merging two str_agg or two bool_agg entries gives an entry of the
\* same kind whose counts has the union of the two key sets and, for each
\* key, the sum of the two counts, an absent key counting as 0.
CategoryMerge ==
    \A c \in MergeCases :
        (c.a.variant \in {"StrAgg", "BoolAgg"} /\ c.b.variant = c.a.variant) =>
            /\ c.out.variant = c.a.variant
            /\ DOMAIN c.out.counts = DOMAIN c.a.counts \cup DOMAIN c.b.counts
            /\ \A e \in DOMAIN c.out.counts :
                  c.out.counts[e] = (IF e \in DOMAIN c.a.counts THEN c.a.counts[e] ELSE 0)
                                    + (IF e \in DOMAIN c.b.counts THEN c.b.counts[e] ELSE 0)

\* two str_agg entries with a shared value and one only the incoming has
CategoryMergeWitness ==
    \E c \in MergeCases :
        /\ c.a.variant = "StrAgg" /\ c.b.variant = "StrAgg"
        /\ DOMAIN c.a.counts = {<<"x">>}
        /\ DOMAIN c.b.counts = {<<"x">>, <<"y">>}
        /\ c.out.counts = (<<"x">> :> c.a.counts[<<"x">>] + c.b.counts[<<"x">>])
                          @@ (<<"y">> :> c.b.counts[<<"y">>])

\* C25: merging two date_agg entries gives a date_agg whose counts is the
\* key-wise sum, whose min_date is the lexicographically smaller and whose
\* max_date the larger of the two; a side without min_date (max_date)
\* adopts the other side's.
DateMerge ==
    LET Pick(x, y, takes_y) ==
            IF x = None THEN y
            ELSE IF y = None THEN x
            ELSE IF takes_y THEN y ELSE x
    IN  \A c \in MergeCases :
            (c.a.variant = "DateAgg" /\ c.b.variant = "DateAgg") =>
                /\ c.out.variant = "DateAgg"
                /\ DOMAIN c.out.counts = DOMAIN c.a.counts \cup DOMAIN c.b.counts
                /\ \A d \in DOMAIN c.out.counts :
                      c.out.counts[d] = (IF d \in DOMAIN c.a.counts THEN c.a.counts[d] ELSE 0)
                                        + (IF d \in DOMAIN c.b.counts THEN c.b.counts[d] ELSE 0)
                /\ c.out.min_date =
                      Pick(c.a.min_date, c.b.min_date,
                           c.a.min_date # None /\ c.b.min_date # None
                           /\ StrLt(c.b.min_date[1], c.a.min_date[1]))
                /\ c.out.max_date =
                      Pick(c.a.max_date, c.b.max_date,
                           c.a.max_date # None /\ c.b.max_date # None
                           /\ StrLt(c.a.max_date[1], c.b.max_date[1]))

\* a date_agg without min and max has merged 2024-01-02 and then
\* 2023-12-31 in: it adopted the first and lowered min_date to the second
DateMergeWitness ==
    \E c \in MergeCases :
        /\ c.a.variant = "DateAgg" /\ c.b.variant = "DateAgg"
        /\ last.op = "merge_sfunc" /\ Len(wlog[1]) = 3
        /\ "a" \in FieldsOfType(wlog[1][1][1], {"date_agg"})
        /\ "min" \notin DOMAIN wlog[1][1][1].o.a.o
        /\ c.a.min_date = Some(Date1) /\ c.a.max_date = Some(Date1)
        /\ c.b.min_date = Some(Date2)
        /\ c.out.min_date = Some(Date2) /\ c.out.max_date = Some(Date1)
        /\ c.out.counts = (Date1 :> 1) @@ (Date2 :> 3)

\* C26: a successful merge is per key.  The state after it has exactly the
\* keys of the existing state and of the incoming summary (or right-hand
\* state); a key only the incoming side has holds the incoming entry as it
\* is, a key both have holds the merge of the two entries, and a key only
\* the existing state has holds its entry unchanged.  jsonb_stats_merge
\* treats the fields of its two summary documents in the same way.
MergePerKey ==
    LET PerKey(pre, inc, out) ==
            /\ DOMAIN out = DOMAIN pre \cup DOMAIN inc
            /\ \A k \in DOMAIN inc \ DOMAIN pre : out[k] = inc[k]
            /\ \A k \in DOMAIN pre \ DOMAIN inc : out[k] = pre[k]
            /\ \A k \in DOMAIN pre \cap DOMAIN inc :
                  /\ merge_agg_entries(pre[k], inc[k], k).err = "none"
                  /\ out[k] = merge_agg_entries(pre[k], inc[k], k).entry
    IN  /\ (last.op = "merge_sfunc" /\ last.err = "none") =>
              PerKey(last.pre, IncomingEntries(last.arg), heap[last.ret].entries)
        /\ (last.op = "combine" /\ last.err = "none") =>
              PerKey(last.pre1, last.pre2, heap[last.ret].entries)
        /\ (last.op = "jsonb_stats_merge" /\ last.err = "none"
            /\ last.a.t = "obj" /\ last.b.t = "obj") =>
              /\ DOMAIN last.out.o = DOMAIN last.a.o \cup (DOMAIN last.b.o \ {"type"})
              /\ \A k \in (DOMAIN last.b.o \ {"type"}) \ DOMAIN last.a.o :
                    last.out.o[k] = last.b.o[k]
              /\ \A k \in DOMAIN last.a.o \ (DOMAIN last.b.o \ {"type"}) :
                    last.out.o[k] = last.a.o[k]
              /\ \A k \in DOMAIN last.a.o \cap (DOMAIN last.b.o \ {"type"}) :
                    last.out.o[k] = merge_summaries(last.a.o[k], last.b.o[k]).entry

\* jsonb_stats_merge_sfunc has merged a summary into a state: one key only
\* the state has, and one both have, whose entry has changed
MergePerKeyWitness ==
    /\ last.op = "merge_sfunc" /\ last.err = "none"
    /\ \E k1 \in DOMAIN last.pre : k1 \notin DOMAIN IncomingEntries(last.arg)
    /\ \E k3 \in DOMAIN IncomingEntries(last.arg) \cap DOMAIN last.pre :
          heap[last.ret].entries[k3] # last.pre[k3]

\* C27: the aggregate a statement runs, jsonb_stats_agg(stats) or
\* jsonb_stats_merge_agg(stats_agg), is defined with the native state as
\* its state type and with a combine, a serialize and a deserialize
\* function.
ParallelSupportDeclared ==
    stmt \in Aggregates =>
        /\ AggregateDefs[stmt].stype = "internal"
        /\ {"combinefunc", "serialfunc", "deserialfunc"} \subseteq DOMAIN AggregateDefs[stmt]

\* C28: once an operation of the aggregate has raised an error, no
\* StatsState allocation of the statement is live: each has been freed.
NoStateLiveAfterError ==
    (stmt \in Aggregates /\ failed # "none") =>
        \A p \in DOMAIN heap : heap[p].frees >= 1

\* C29: when the row passed to jsonb_stats_accum_sfunc, or the summary
\* passed to jsonb_stats_merge_sfunc, is not a JSON object, the call raises
\* no error and returns the state with its entries as they were; without a
\* state yet, it returns a new, empty one.
OuterLevelTolerance ==
    LET arg == IF last.op = "accum_sfunc" THEN last.arg ELSE last.arg[1]
    IN  (/\ last.op \in {"accum_sfunc", "merge_sfunc"}
         /\ last.op = "merge_sfunc" => last.arg # None
         /\ arg.t # "obj") =>
            /\ last.err = "none" /\ failed = "none"
            /\ last.ret # NULL
            /\ last.ret \in DOMAIN heap
            /\ heap[last.ret].frees = 0
            /\ heap[last.ret].entries = last.pre
            /\ last.state # NULL => last.ret = last.state
            /\ last.state = NULL => heap[last.ret].entries = EmptyMap

\* a state with an entry has been passed the row 7
OuterLevelWitness ==
    /\ last.op = "accum_sfunc"
    /\ last.arg = JInt(7)
    /\ last.state # NULL
    /\ last.pre # EmptyMap
    /\ last.err = "none"
    /\ heap[last.ret].entries = last.pre

\* C30 as stated: after every call of jsonb_stats_sfunc, whatever the code
\* and the calls before, the object returned maps code to stat_val, carries
\* "type": "stats", and has every code inserted before.
StatsSfuncBuildsStats ==
    last.op = "jsonb_stats_sfunc" =>
        /\ last.out.t = "obj"
        /\ last.out.o[last.code] = last.stat_val
        /\ last.out.o["type"] = JStr("stats")
        /\ \A i \in 1..Len(wlog[1]) : wlog[1][i][1] \in DOMAIN last.out.o

\* C30 amended: the same for every sequence of calls none of whose codes
\* is "type".
StatsSfuncBuildsStatsNoTypeCode ==
    (last.op = "jsonb_stats_sfunc" /\ \A i \in 1..Len(wlog[1]) : wlog[1][i][1] # "type") =>
        /\ last.out.t = "obj"
        /\ last.out.o[last.code] = last.stat_val
        /\ last.out.o["type"] = JStr("stats")
        /\ \A i \in 1..Len(wlog[1]) : wlog[1][i][1] \in DOMAIN last.out.o

\* three calls with the codes a, b, a: the object has a, b and type, and a
\* maps to the stat of the third call
StatsSfuncWitness ==
    /\ last.op = "jsonb_stats_sfunc"
    /\ Len(wlog[1]) = 3
    /\ wlog[1][1][1] = "a" /\ wlog[1][2][1] = "b" /\ wlog[1][3][1] = "a"
    /\ wlog[1][1][2] # wlog[1][3][2]
    /\ DOMAIN last.out.o = {"a", "b", "type"}
    /\ last.out.o.a = wlog[1][3][2]
    /\ last.out.o.b = wlog[1][2][2]
    /\ last.out.o.type = JStr("stats")


\* C31: while jsonb_stats_accum_sfunc folds a row, the key "type", every
\* key whose value is not an object and every key whose stat object has no
\* type is skipped: the state keeps the entry it had for that key, or none,
\* and a row with no other key raises no error.
AccumulateSkipRules ==
    (last.op = "accum_sfunc" /\ last.arg.t = "obj") =>
        LET Skipped == {k \in DOMAIN last.arg.o :
                           \/ k = "type"
                           \/ last.arg.o[k].t # "obj"
                           \/ "type" \notin DOMAIN last.arg.o[k].o}
        IN  /\ \A k \in Skipped : FieldUntouched(k)
            /\ Skipped = DOMAIN last.arg.o => last.err = "none" /\ failed = "none"

\* a state with an entry for a has been passed a row whose a has no type,
\* and one whose a is the number 7 beside "type": "stats"
AccumulateSkipWitness ==
    /\ last.op = "accum_sfunc" /\ last.err = "none"
    /\ Len(wlog[1]) = 3
    /\ wlog[1][2] = JObj([a |-> JObj([value |-> JInt(1)])])
    /\ wlog[1][3] = JObj([type |-> JStr("stats"), a |-> JInt(7)])
    /\ "a" \in DOMAIN last.pre
    /\ heap[<<"sfunc", 1>>].entries = last.pre
    /\ heap[<<"sfunc", 1>>].entries = AccumAll(EmptyMap, <<wlog[1][1]>>)


\* C32: for an arr stat whose value is a string, the elements tallied are
\* those of the string with exactly one outer pair of braces stripped, split
\* on commas, each trimmed of whitespace: when jsonb_stats_accum_sfunc
\* creates or updates an arr_agg entry from such a stat, each element adds 1
\* to counts per occurrence.
ArrStringElements ==
    (last.op = "accum_sfunc" /\ last.err = "none") =>
        \A k \in FieldsOfType(last.arg, {"arr"}) :
            LET v        == Get(last.arg.o[k].o, "value")
                now      == heap[<<"sfunc", last.w>>].entries
                before   == IF k \in DOMAIN last.pre THEN last.pre[k].counts ELSE EmptyMap
                stripped == IF Len(v.s) >= 2 /\ Head(v.s) = "{" /\ v.s[Len(v.s)] = "}"
                            THEN SubSeq(v.s, 2, Len(v.s) - 1) ELSE v.s
            IN  (v.t = "str" /\ stripped # <<>>
                    /\ (k \in DOMAIN last.pre => last.pre[k].variant = "ArrAgg")) =>
                    now[k].counts = TallyPieces(Split(stripped, ","), before)


\* C33: category keys are stringified at ingest.  After jsonb_stats_agg has
\* accumulated rows whose field a is a str or bool stat each time, the
\* counts of a hold under "true" the number of rows whose value is the
\* boolean true or the string "true", and under "1" the number of rows
\* whose value is the number 1 or the string "1".
CategoryKeysStringified ==
    (/\ last.op = "accum_sfunc" /\ last.err = "none"
     /\ \A i \in DOMAIN wlog[1] : FieldsOfType(wlog[1][i], {"str", "bool"}) = {"a"}) =>
        LET counts    == heap[<<"sfunc", 1>>].entries["a"].counts
            Carrying(forms) ==
                Cardinality({i \in DOMAIN wlog[1] : Get(wlog[1][i].o["a"].o, "value") \in forms})
            Tally(key) == IF key \in DOMAIN counts THEN counts[key] ELSE 0
        IN  /\ heap[<<"sfunc", 1>>].entries["a"].variant \in {"StrAgg", "BoolAgg"}
            /\ Tally(<<"t", "r", "u", "e">>)
                  = Carrying({JBool(TRUE), JStr(<<"t", "r", "u", "e">>)})
            /\ Tally(<<"1">>) = Carrying({JInt(1), JStr(<<"1">>)})

\* three rows: the boolean true, the string "true" and the number 1
CategoryKeysWitness ==
    /\ last.op = "accum_sfunc" /\ last.err = "none"
    /\ wlog[1] = <<JObj([a |-> Stat("bool", JBool(TRUE))]),
                   JObj([a |-> Stat("bool", JStr(<<"t", "r", "u", "e">>))]),
                   JObj([a |-> Stat("str", JInt(1))])>>
    /\ heap[<<"sfunc", 1>>].entries["a"].counts = (<<"t", "r", "u", "e">> :> 2) @@ (<<"1">> :> 1)


\* C34: jsonb_stats_combine handles NULL partial states without error.
\* With both inputs NULL it returns a fresh state with no entries; with
\* exactly one input NULL it returns the other state, its entries as they
\* were and nothing freed.
CombineHandlesNull ==
    (last.op = "combine" /\ (last.state1 = NULL \/ last.state2 = NULL)) =>
        /\ last.err = "none" /\ failed = "none"
        /\ lstate = last.ret
        /\ heap[last.ret].frees = 0
        /\ (last.state1 = NULL /\ last.state2 = NULL) =>
              /\ heap[last.ret].entries = EmptyMap
              /\ \A w \in Workers : last.ret \notin {wstate[w], inbox[w]}
        /\ (last.state1 = NULL /\ last.state2 # NULL) =>
              last.ret = last.state2 /\ heap[last.ret].entries = last.pre2
        /\ (last.state1 # NULL /\ last.state2 = NULL) =>
              last.ret = last.state1 /\ heap[last.ret].entries = last.pre1

\* the leader took worker 1's state for its own (state1 NULL), then combined
\* the NULL of worker 2, which scanned no row, into it
CombineNullWitness ==
    /\ last.op = "combine" /\ last.w = 2
    /\ phase[1] = "combined"
    /\ last.state1 = <<"sfunc", 1>> /\ last.state2 = NULL
    /\ last.pre1 # EmptyMap
    /\ lstate = <<"sfunc", 1>>


\* C35: jsonb_stats_serial only borrows the state.  A call leaves the state
\* with the entries it had and not freed, and still the worker's state; a
\* call repeated on the same state returns the same bytes; and the sfunc,
\* combine and final calls that follow work on the state as if
\* jsonb_stats_serial had never been called: no allocation is freed twice,
\* and the summary returned is the summary of the rows accumulated.
SerialOnlyBorrows ==
    /\ last.op = "serial" =>
          /\ wstate[last.w] = last.state
          /\ last.state # NULL =>
                heap[last.state].entries = last.pre /\ heap[last.state].frees = 0
          /\ last.bytes = jsonb_stats_serial(EntriesOf(heap, last.state))
          /\ last.prev # None => last.prev[1] = last.bytes
    /\ \A p \in DOMAIN heap : heap[p].frees <= 1
    /\ result # None =>
          /\ ref.err = "none"
          /\ result[1] = final_summary(ref.entries)
          /\ \A p \in DOMAIN heap : heap[p].frees = 1

\* the state was serialized after the first row, took a second row, was
\* combined and finalized
SerialBorrowWitness ==
    /\ result # None
    /\ Len(wlog[1]) = 2
    /\ wire[1] = Some(jsonb_stats_serial(AccumAll(EmptyMap, <<wlog[1][1]>>)))
    /\ wire[1] # Some(jsonb_stats_serial(AccumAll(EmptyMap, wlog[1])))
    /\ result[1] = final_summary(AccumAll(EmptyMap, wlog[1]))


\* C36: the JSON-state path and the native-state path agree.  For the rows
\* jsonb_stats_agg has been fed, folding them from {} with jsonb_stats_accum
\* and applying jsonb_stats_final gives the summary the aggregate returns,
\* and the fold raises an error exactly when the aggregate does.
JsonAndNativePathsAgree ==
    stmt = "jsonb_stats_agg" =>
        LET RECURSIVE Fold(_, _)
            Fold(state, rows) ==
                IF rows = <<>> THEN [err |-> "none", value |-> state]
                ELSE LET r == jsonb_stats_accum(state, Head(rows))
                     IN  IF r.err # "none" THEN r ELSE Fold(r.value, Tail(rows))
            folded == Fold(JObj(EmptyMap), wlog[1])
            json   == IF folded.err # "none" THEN folded ELSE jsonb_stats_final(folded.value)
        IN  /\ result # None => json.err = "none" /\ json.value = result[1]
            /\ failed # "none" => json.err # "none"
            /\ folded.err # "none" => failed # "none"


\* C37: jsonb_stats_merge(a, b) raises the unknown-aggregate-type error
\* whenever b contains a field object whose type is none of the eight
\* aggregate tags, whether or not a has an entry for that key, and its
\* result never contains an entry with an unknown tag taken from b.
JsonMergeRejectsUnknownAggType ==
    last.op = "jsonb_stats_merge" =>
        /\ UnknownAggFields(Some(last.b)) # {} => last.err = "UnknownAggType"
        /\ last.err = "none" =>
              \A k \in UnknownAggFields(Some(last.b)) :
                  ~(k \in DOMAIN last.out.o /\ last.out.o[k] = last.b.o[k])


DateEntryInvariant ==
    \A p \in DOMAIN heap : \A k \in DOMAIN heap[p].entries :
        LET e == heap[p].entries[k]
        IN  (e.variant = "DateAgg" /\ e.counts # EmptyMap) =>
                /\ e.min_date # None /\ e.max_date # None
                /\ {e.min_date[1], e.max_date[1]} \subseteq DOMAIN e.counts
                /\ ~StrLt(e.max_date[1], e.min_date[1])
                /\ \A d \in DOMAIN e.counts :
                       ~StrLt(d, e.min_date[1]) /\ ~StrLt(e.max_date[1], d)


\* C40: count conservation for category fields.  In every state reached by
\* accumulate and combine, every value in the counts map of a str_agg or
\* bool_agg entry is at least 1, and the values add up to the number of rows
\* accumulated for that key without error: in a worker's state the rows the
\* worker has scanned, in the leader's state once every partial state is
\* combined the rows of all workers.
CountConservation ==
    (stmt = "jsonb_stats_agg" /\ failed = "none") =>
        LET RowsFor(w, k) ==
                Cardinality({i \in DOMAIN wlog[w] :
                                /\ wlog[w][i].t = "obj"
                                /\ k \in DOMAIN wlog[w][i].o \ {"type"}
                                /\ wlog[w][i].o[k].t = "obj"
                                /\ Get(wlog[w][i].o[k].o, "type").t = "str"})
            RECURSIVE Sum(_, _)
            Sum(counts, keys) ==
                IF keys = {} THEN 0
                ELSE LET c == CHOOSE x \in keys : TRUE
                     IN  counts[c] + Sum(counts, keys \ {c})
            RECURSIVE Total(_, _)
            Total(ws, k) ==
                IF ws = {} THEN 0
                ELSE LET w == CHOOSE x \in ws : TRUE
                     IN  RowsFor(w, k) + Total(ws \ {w}, k)
            Conserved(entries, ws) ==
                \A k \in DOMAIN entries :
                    entries[k].variant \in {"StrAgg", "BoolAgg"} =>
                        /\ \A c \in DOMAIN entries[k].counts : entries[k].counts[c] >= 1
                        /\ Sum(entries[k].counts, DOMAIN entries[k].counts) = Total(ws, k)
        IN  /\ \A w \in Workers :
                  (wstate[w] # NULL /\ phase[w] = "scan") =>
                      Conserved(heap[wstate[w]].entries, {w})
            /\ (lstate # NULL /\ \A w \in Workers : phase[w] = "combined") =>
                  Conserved(heap[lstate].entries, Workers)

====
